---------------------------- MODULE Spec2Model ----------------------------
(***************************************************************************)
(* A model of the cathode8 NES core: the orchestrator (Nes), the 6502      *)
(* step function, the PPU dot clock with its VBL/NMI logic, the APU frame  *)
(* counter and DMC DMA, and two cartridge mappers (FME-7, which raises     *)
(* IRQs from a CPU-cycle counter, and AxROM, which switches the 32K bank   *)
(* that holds the vectors).                                                *)
(*                                                                         *)
(* The machine is one record, nes, whose fields are the fields of the      *)
(* Rust struct Nes; operators carry the names of the Rust functions they   *)
(* are translated from and map a machine record to a machine record.       *)
(* Fields that none of the modelled operations reads are not carried:      *)
(* the frame buffer, VRAM, OAM and the scroll registers of the PPU, the    *)
(* tone channels and the mixer of the APU, the controllers, and the debug  *)
(* event log.  PPUMASK is carried but the programs drawn here never write  *)
(* it, so rendering stays disabled.                                        *)
(*                                                                         *)
(* nes.hist holds history variables (not program state): the number of     *)
(* tick_cpu_cycle calls made on the mapper, the number of opcode fetches,  *)
(* the NMI edges taken while an NMI was already pending, and whether a KIL *)
(* opcode was executed since the last reset.                               *)
(***************************************************************************)
EXTENDS Integers, Sequences, FiniteSets, TLC

VARIABLES nes, rf, guard, last, calls

vars == <<nes, rf, guard, last, calls>>

(***************************************************************************)
(* Bytes and bit masks.  m is always a single-bit mask (a power of two).   *)
(***************************************************************************)
HasBit(v, m) == (v \div m) % 2 = 1

SetMask(v, m) == IF HasBit(v, m) THEN v ELSE v + m

ClearMask(v, m) == IF HasBit(v, m) THEN v - m ELSE v

Wrap8(v) == v % 256

Wrap16(v) == v % 65536

Lo(w) == w % 256

Hi(w) == (w \div 256) % 256

(***************************************************************************)
(* Program constants.                                                      *)
(***************************************************************************)
FLAG_CARRY == 1

FLAG_ZERO == 2

FLAG_INTERRUPT == 4

FLAG_BREAK == 16

FLAG_UNUSED == 32

FLAG_OVERFLOW == 64

FLAG_NEGATIVE == 128

CTRL_NMI_ENABLE == 128

MASK_SHOW_BG == 8

MASK_SHOW_SPRITES == 16

STATUS_VBLANK == 128

NMI_DELAY_CYCLES == 0

FC_4STEP_Q4_H4_IRQ == 29829

FC_4STEP_RESET == 29830

FC_5STEP_RESET == 37282

DMC_RATE_TABLE == <<428, 380, 340, 320, 286, 254, 226, 214, 190, 160, 142, 128, 106, 84, 72, 54>>

DOCUMENTED_MAPPER_MAX_ID == 559

FRAME_GUARD == 10000000

KilOpcodes == {2, 18, 34, 50, 66, 82, 98, 114, 146, 178, 210, 242}

(***************************************************************************)
(* PPU (ppu.rs).                                                           *)
(***************************************************************************)
Ppu_new ==
  [ ctrl |-> 0, mask |-> 0, status |-> 0, open_bus |-> 0,
    write_toggle |-> FALSE, scanline |-> 261, cycle |-> 0,
    odd_frame |-> FALSE, frame_complete |-> FALSE, nmi_pending |-> FALSE,
    vblank_suppress |-> FALSE, nmi_line |-> FALSE, nmi_delay |-> 0,
    debug |-> [nmi_edges |-> 0, vblank_entries |-> 0] ]

rendering_enabled(p) == HasBit(p.mask, MASK_SHOW_BG) \/ HasBit(p.mask, MASK_SHOW_SPRITES)

update_nmi_line(p) ==
  LET line == HasBit(p.ctrl, CTRL_NMI_ENABLE) /\ HasBit(p.status, STATUS_VBLANK) IN
  IF line /\ ~p.nmi_line
    THEN [p EXCEPT !.nmi_delay = NMI_DELAY_CYCLES,
                   !.debug.nmi_edges = @ + 1,
                   !.nmi_pending = IF NMI_DELAY_CYCLES = 0 THEN TRUE ELSE @,
                   !.nmi_line = line]
    ELSE IF ~line
      THEN [p EXCEPT !.nmi_delay = 0, !.nmi_line = line]
      ELSE [p EXCEPT !.nmi_line = line]

\* A dot counter that drops dot 340 of the pre-render line in every frame.
ppu_advance_every_frame(p) ==
  IF p.scanline = 261 /\ rendering_enabled(p) /\ p.cycle = 339
    THEN [p EXCEPT !.cycle = 0, !.scanline = 0, !.odd_frame = FALSE]
    ELSE IF p.cycle + 1 > 340
      THEN IF p.scanline + 1 > 261
        THEN [p EXCEPT !.cycle = 0, !.scanline = 0, !.odd_frame = ~@]
        ELSE [p EXCEPT !.cycle = 0, !.scanline = @ + 1]
      ELSE [p EXCEPT !.cycle = @ + 1]

ppu_advance(p) ==
  IF p.scanline = 261 /\ rendering_enabled(p) /\ p.odd_frame /\ p.cycle = 339
    THEN [p EXCEPT !.cycle = 0, !.scanline = 0, !.odd_frame = FALSE]
    ELSE IF p.cycle + 1 > 340
      THEN IF p.scanline + 1 > 261
        THEN [p EXCEPT !.cycle = 0, !.scanline = 0, !.odd_frame = ~@]
        ELSE [p EXCEPT !.cycle = 0, !.scanline = @ + 1]
      ELSE [p EXCEPT !.cycle = @ + 1]

\* A tick whose pre-render line leaves the sprite-overflow flag alone.
ppu_tick_overflow_kept(p) ==
  LET nmi_delay_step(q) ==
        IF q.nmi_delay > 0
          THEN IF q.nmi_delay = 1 /\ q.nmi_line
                 THEN [q EXCEPT !.nmi_delay = 0, !.nmi_pending = TRUE]
                 ELSE [q EXCEPT !.nmi_delay = @ - 1]
          ELSE q
      pre_render(q) ==
        IF q.scanline = 261 /\ q.cycle = 1
          THEN update_nmi_line([q EXCEPT !.status = @ % 64,
                                         !.frame_complete = FALSE,
                                         !.vblank_suppress = FALSE])
          ELSE q
      vblank(q) ==
        IF q.scanline = 241 /\ q.cycle = 1
          THEN update_nmi_line([q EXCEPT
                 !.frame_complete = TRUE,
                 !.debug.vblank_entries = @ + 1,
                 !.status = IF q.vblank_suppress THEN @ ELSE SetMask(@, STATUS_VBLANK),
                 !.vblank_suppress = FALSE])
          ELSE q
  IN ppu_advance(vblank(pre_render(nmi_delay_step(p))))

ppu_tick(p) ==
  LET nmi_delay_step(q) ==
        IF q.nmi_delay > 0
          THEN IF q.nmi_delay = 1 /\ q.nmi_line
                 THEN [q EXCEPT !.nmi_delay = 0, !.nmi_pending = TRUE]
                 ELSE [q EXCEPT !.nmi_delay = @ - 1]
          ELSE q
      pre_render(q) ==
        IF q.scanline = 261 /\ q.cycle = 1
          THEN update_nmi_line([q EXCEPT !.status = @ % 32,
                                         !.frame_complete = FALSE,
                                         !.vblank_suppress = FALSE])
          ELSE q
      vblank(q) ==
        IF q.scanline = 241 /\ q.cycle = 1
          THEN update_nmi_line([q EXCEPT
                 !.frame_complete = TRUE,
                 !.debug.vblank_entries = @ + 1,
                 !.status = IF q.vblank_suppress THEN @ ELSE SetMask(@, STATUS_VBLANK),
                 !.vblank_suppress = FALSE])
          ELSE q
  IN ppu_advance(vblank(pre_render(nmi_delay_step(p))))

\* A clear_frame_complete that leaves the flag as it is.
clear_frame_complete_kept(p) == p

clear_frame_complete(p) == [p EXCEPT !.frame_complete = FALSE]

\* A cpu_read_register without the suppression of a $2002 read at scanline
\* 241, dot 0.
ppu_cpu_read_register_unsuppressed(p, reg) ==
  IF reg = 8194
    THEN LET value == (p.status - (p.status % 32)) + (p.open_bus % 32)
         IN [v |-> value,
             ppu |-> [update_nmi_line([p EXCEPT !.status = ClearMask(@, STATUS_VBLANK),
                                               !.write_toggle = FALSE])
                        EXCEPT !.open_bus = value]]
    ELSE [v |-> p.open_bus, ppu |-> p]

\* A cpu_read_register whose $2002 read leaves the write toggle alone.
ppu_cpu_read_register_toggle_kept(p, reg) ==
  IF reg = 8194
    THEN LET s == IF p.scanline = 241 /\ p.cycle = 0
                    THEN [p EXCEPT !.vblank_suppress = TRUE, !.nmi_delay = 0,
                                   !.nmi_pending = FALSE]
                    ELSE p
             value == (s.status - (s.status % 32)) + (s.open_bus % 32)
         IN [v |-> value,
             ppu |-> [update_nmi_line([s EXCEPT !.status = ClearMask(@, STATUS_VBLANK),
                                               !.write_toggle = @])
                        EXCEPT !.open_bus = value]]
    ELSE [v |-> p.open_bus, ppu |-> p]

\* cpu_read_register: the value read and the PPU after the read.
ppu_cpu_read_register(p, reg) ==
  IF reg = 8194
    THEN LET s == IF p.scanline = 241 /\ p.cycle = 0
                    THEN [p EXCEPT !.vblank_suppress = TRUE, !.nmi_delay = 0,
                                   !.nmi_pending = FALSE]
                    ELSE p
             value == (s.status - (s.status % 32)) + (s.open_bus % 32)
         IN [v |-> value,
             ppu |-> [update_nmi_line([s EXCEPT !.status = ClearMask(@, STATUS_VBLANK),
                                               !.write_toggle = FALSE])
                        EXCEPT !.open_bus = value]]
    ELSE [v |-> p.open_bus, ppu |-> p]

ppu_cpu_write_register(p, reg, value) ==
  LET q == [p EXCEPT !.open_bus = value] IN
  IF reg = 8192 THEN update_nmi_line([q EXCEPT !.ctrl = value])
  ELSE IF reg = 8193 THEN [q EXCEPT !.mask = value]
  ELSE q

(***************************************************************************)
(* APU (apu.rs): the frame counter, the status register and the DMC's DMA  *)
(* and IRQ logic.  has_sample stands for sample_buffer.is_some().          *)
(***************************************************************************)
DmcChannel_new ==
  [ enabled |-> FALSE, irq_enabled |-> FALSE, irq_flag |-> FALSE,
    loop_flag |-> FALSE, timer_period |-> DMC_RATE_TABLE[1],
    timer_counter |-> DMC_RATE_TABLE[1], sample_length |-> 0,
    bytes_remaining |-> 0, has_sample |-> FALSE, bits_remaining |-> 8,
    dma_pending |-> FALSE, dma_delay |-> 0,
    sample_addr |-> 0, current_addr |-> 49152 ]

Apu_new ==
  [ dmc |-> DmcChannel_new, frame_counter |-> 0, frame_mode_5_step |-> FALSE,
    frame_irq_inhibit |-> FALSE, frame_irq_flag |-> FALSE,
    frame_counter_write_pending |-> FALSE, frame_counter_write_value |-> 0,
    frame_counter_write_delay |-> 0, cpu_cycle |-> 0,
    dmc_dma_request |-> FALSE ]

dmc_schedule_dma(d, delay) ==
  IF d.enabled /\ ~d.has_sample /\ d.bytes_remaining > 0
    THEN [d EXCEPT !.dma_pending = TRUE, !.dma_delay = delay]
    ELSE d

dmc_restart_sample(d) ==
  LET d1 == [d EXCEPT !.current_addr = 49152 + d.sample_addr * 64,
                      !.bytes_remaining = d.sample_length * 16 + 1] IN
  IF ~d1.has_sample /\ d1.bytes_remaining > 0 THEN dmc_schedule_dma(d1, 2) ELSE d1

dmc_playback_active(d) == d.bytes_remaining > 0 \/ d.has_sample

dmc_needs_dma(d) == d.enabled /\ d.dma_pending /\ d.dma_delay = 0

dmc_stop(d) == [d EXCEPT !.bytes_remaining = 0, !.dma_pending = FALSE, !.dma_delay = 0]

dmc_write_control(d, value) ==
  LET en == HasBit(value, 128)
      period == DMC_RATE_TABLE[(value % 16) + 1]
  IN [d EXCEPT !.irq_enabled = en,
               !.irq_flag = IF en THEN @ ELSE FALSE,
               !.loop_flag = HasBit(value, 64),
               !.timer_period = period,
               !.timer_counter = IF @ = 0 \/ @ > period THEN period ELSE @]

\* consume_dma_byte raising the IRQ at the end of a sample whether or not
\* DMC IRQ is enabled.
dmc_consume_dma_byte_irq_always(d) ==
  LET d1 == [d EXCEPT !.dma_pending = FALSE, !.dma_delay = 0, !.has_sample = TRUE] IN
  IF d1.bytes_remaining > 0
    THEN LET d2 == [d1 EXCEPT !.current_addr = IF @ = 65535 THEN 32768
                                                ELSE Wrap16(@ + 1),
                              !.bytes_remaining = @ - 1] IN
         IF d2.bytes_remaining = 0
           THEN IF d2.loop_flag THEN dmc_restart_sample(d2)
                ELSE [d2 EXCEPT !.irq_flag = TRUE]
           ELSE d2
    ELSE d1

dmc_consume_dma_byte(d) ==
  LET d1 == [d EXCEPT !.dma_pending = FALSE, !.dma_delay = 0, !.has_sample = TRUE] IN
  IF d1.bytes_remaining > 0
    THEN LET d2 == [d1 EXCEPT !.current_addr = IF @ = 65535 THEN 32768
                                                ELSE Wrap16(@ + 1),
                              !.bytes_remaining = @ - 1] IN
         IF d2.bytes_remaining = 0
           THEN IF d2.loop_flag THEN dmc_restart_sample(d2)
                ELSE IF d2.irq_enabled THEN [d2 EXCEPT !.irq_flag = TRUE]
                ELSE d2
           ELSE d2
    ELSE d1

dmc_clock_output_unit(d) ==
  LET d1 == [d EXCEPT !.bits_remaining = IF @ > 0 THEN @ - 1 ELSE @] IN
  IF d1.bits_remaining = 0
    THEN IF d1.has_sample
           THEN LET d2 == [d1 EXCEPT !.bits_remaining = 8, !.has_sample = FALSE] IN
                IF d2.bytes_remaining > 0 THEN dmc_schedule_dma(d2, 1) ELSE d2
           ELSE [d1 EXCEPT !.bits_remaining = 8]
    ELSE d1

dmc_clock_timer(d) ==
  LET d1 == IF d.dma_pending /\ d.dma_delay > 0 THEN [d EXCEPT !.dma_delay = @ - 1] ELSE d
      d2 == IF d1.timer_counter = 0 THEN [d1 EXCEPT !.timer_counter = d1.timer_period] ELSE d1
      d3 == [d2 EXCEPT !.timer_counter = IF @ > 0 THEN @ - 1 ELSE 0]
  IN IF d3.timer_counter = 0 THEN dmc_clock_output_unit(d3) ELSE d3

apu_request_dma(a) ==
  IF dmc_needs_dma(a.dmc) /\ ~a.dmc_dma_request THEN [a EXCEPT !.dmc_dma_request = TRUE] ELSE a

apu_irq_pending(a) == a.frame_irq_flag \/ a.dmc.irq_flag

\* clock_frame_counter with the frame IRQ raised whatever IRQ-inhibit says.
clock_frame_counter_inhibit_ignored(a) ==
  LET fc == a.frame_counter + 1 IN
  IF a.frame_mode_5_step
    THEN [a EXCEPT !.frame_counter = IF fc = FC_5STEP_RESET THEN 0 ELSE fc]
    ELSE IF fc = FC_4STEP_Q4_H4_IRQ
      THEN [a EXCEPT !.frame_counter = fc, !.frame_irq_flag = TRUE]
      ELSE IF fc = FC_4STEP_RESET
        THEN [a EXCEPT !.frame_counter = 0, !.frame_irq_flag = TRUE]
        ELSE [a EXCEPT !.frame_counter = fc]

apply_frame_counter_write(a, value) ==
  [a EXCEPT !.frame_mode_5_step = HasBit(value, 128),
            !.frame_irq_inhibit = HasBit(value, 64),
            !.frame_irq_flag = IF HasBit(value, 64) THEN FALSE ELSE @,
            !.frame_counter = 0]

clock_frame_counter(a) ==
  LET fc == a.frame_counter + 1 IN
  IF a.frame_mode_5_step
    THEN [a EXCEPT !.frame_counter = IF fc = FC_5STEP_RESET THEN 0 ELSE fc]
    ELSE IF fc = FC_4STEP_Q4_H4_IRQ
      THEN [a EXCEPT !.frame_counter = fc,
                     !.frame_irq_flag = IF a.frame_irq_inhibit THEN @ ELSE TRUE]
      ELSE IF fc = FC_4STEP_RESET
        THEN [a EXCEPT !.frame_counter = 0,
                       !.frame_irq_flag = IF a.frame_irq_inhibit THEN @ ELSE TRUE]
        ELSE [a EXCEPT !.frame_counter = fc]

apu_tick(a) ==
  LET a1 == [a EXCEPT !.cpu_cycle = @ + 1]
      dl == IF a1.frame_counter_write_delay > 0
              THEN a1.frame_counter_write_delay - 1 ELSE 0
      a2 == IF a1.frame_counter_write_pending
              THEN IF dl = 0
                     THEN [apply_frame_counter_write(a1, a1.frame_counter_write_value)
                             EXCEPT !.frame_counter_write_delay = 0,
                                    !.frame_counter_write_pending = FALSE]
                     ELSE [a1 EXCEPT !.frame_counter_write_delay = dl]
              ELSE a1
      a3 == apu_request_dma([a2 EXCEPT !.dmc = dmc_clock_timer(@)])
  IN clock_frame_counter(a3)

\* read_status clearing the DMC-IRQ flag along with the frame-IRQ flag.
apu_read_status_dmc_cleared(a) ==
  [ v |-> (IF dmc_playback_active(a.dmc) THEN 16 ELSE 0)
          + (IF a.frame_irq_flag THEN 64 ELSE 0)
          + (IF a.dmc.irq_flag THEN 128 ELSE 0),
    apu |-> [a EXCEPT !.frame_irq_flag = FALSE, !.dmc.irq_flag = FALSE] ]

apu_read_status(a) ==
  [ v |-> (IF dmc_playback_active(a.dmc) THEN 16 ELSE 0)
          + (IF a.frame_irq_flag THEN 64 ELSE 0)
          + (IF a.dmc.irq_flag THEN 128 ELSE 0),
    apu |-> [a EXCEPT !.frame_irq_flag = FALSE] ]

apu_write_status(a, value) ==
  LET d0 == [a.dmc EXCEPT !.irq_flag = FALSE, !.enabled = HasBit(value, 16)] IN
  IF ~d0.enabled THEN [a EXCEPT !.dmc = dmc_stop(d0)]
  ELSE IF ~dmc_playback_active(d0)
    THEN apu_request_dma([a EXCEPT !.dmc = dmc_restart_sample(d0)])
    ELSE [a EXCEPT !.dmc = d0]

\* write_frame_counter with a delay of 3 ticks on every CPU cycle.
apu_write_frame_counter_delay_3(a, value) ==
  [a EXCEPT !.frame_irq_flag = IF HasBit(value, 64) THEN FALSE ELSE @,
            !.frame_counter_write_pending = TRUE,
            !.frame_counter_write_value = value,
            !.frame_counter_write_delay = 3]

apu_write_frame_counter(a, value) ==
  [a EXCEPT !.frame_irq_flag = IF HasBit(value, 64) THEN FALSE ELSE @,
            !.frame_counter_write_pending = TRUE,
            !.frame_counter_write_value = value,
            !.frame_counter_write_delay = IF a.cpu_cycle % 2 = 0 THEN 3 ELSE 4]

apu_write_register(a, addr, value) ==
  IF addr = 16400 THEN [a EXCEPT !.dmc = dmc_write_control(@, value)]
  ELSE IF addr = 16402 THEN [a EXCEPT !.dmc.sample_addr = value]
  ELSE IF addr = 16403 THEN [a EXCEPT !.dmc.sample_length = value]
  ELSE IF addr = 16405 THEN apu_write_status(a, value)
  ELSE IF addr = 16407 THEN apu_write_frame_counter(a, value)
  ELSE a

apu_complete_dmc_dma(a) == apu_request_dma([a EXCEPT !.dmc = dmc_consume_dma_byte(@)])

(***************************************************************************)
(* Mappers (mapper.rs).  A cartridge is an input: its mapper id and the    *)
(* vectors its PRG ROM holds, per 32K bank.  NoMapper is Option::None.     *)
(***************************************************************************)
NoMapper == [kind |-> "none"]

Mapper69_new(vec) ==
  [ kind |-> "fme7", vectors |-> vec, command |-> 0, prg_banks |-> <<0, 1, 2>>,
    irq_counter |-> 0, irq_enabled |-> FALSE, irq_counter_enabled |-> FALSE,
    irq_pending |-> FALSE ]

Mapper7_new(vec) == [ kind |-> "axrom", vectors |-> vec, prg_bank_select |-> 0 ]

\* The ids create_mapper builds a board of their own for.
ImplementedMapperIds == {0, 1, 2, 3, 4, 5, 7, 9, 10, 19, 24, 25, 26, 69, 66, 71, 85}

\* create_mapper: "error" for an id above DOCUMENTED_MAPPER_MAX_ID.  Of the
\* boards it builds, FME-7 (69) and AxROM (7) are modelled; "other" stands
\* for the rest of the boards it names and "generic" for GenericMapper, each
\* with one fixed bank and no IRQ.
create_mapper(cart) ==
  IF cart.mapper_id = 69 THEN Mapper69_new(cart.vectors)
  ELSE IF cart.mapper_id = 7 THEN Mapper7_new(cart.vectors)
  ELSE IF cart.mapper_id \in ImplementedMapperIds
    THEN [kind |-> "other", vectors |-> cart.vectors]
  ELSE IF cart.mapper_id <= DOCUMENTED_MAPPER_MAX_ID
    THEN [kind |-> "generic", vectors |-> cart.vectors]
  ELSE [kind |-> "error"]

write_command_param(m, value) ==
  IF m.command = 9 THEN [m EXCEPT !.prg_banks[1] = value % 64]
  ELSE IF m.command = 10 THEN [m EXCEPT !.prg_banks[2] = value % 64]
  ELSE IF m.command = 11 THEN [m EXCEPT !.prg_banks[3] = value % 64]
  ELSE IF m.command = 13
    THEN [m EXCEPT !.irq_pending = FALSE,
                   !.irq_enabled = HasBit(value, 1),
                   !.irq_counter_enabled = HasBit(value, 128)]
  ELSE IF m.command = 14
    THEN [m EXCEPT !.irq_counter = (@ \div 256) * 256 + value]
  ELSE IF m.command = 15
    THEN [m EXCEPT !.irq_counter = (@ % 256) + value * 256]
  ELSE m

mapper_cpu_write(m, addr, value) ==
  IF m.kind = "fme7"
    THEN IF addr >= 32768 /\ addr <= 40959 THEN [m EXCEPT !.command = value % 16]
         ELSE IF addr >= 40960 /\ addr <= 49151 THEN write_command_param(m, value)
         ELSE m
  ELSE IF m.kind = "axrom"
    THEN IF addr >= 32768 THEN [m EXCEPT !.prg_bank_select = value % 16] ELSE m
  ELSE m

\* A mapper_bank that serves every board from its last bank.
mapper_bank_fixed(m) == Len(m.vectors) - 1

\* The 32K bank a CPU read of 0x8000..0xFFFF is served from.
mapper_bank(m) ==
  IF m.kind = "axrom" THEN m.prg_bank_select % Len(m.vectors) ELSE Len(m.vectors) - 1

mapper_tick_cpu_cycle(m) ==
  IF m.kind = "fme7" /\ m.irq_counter_enabled
    THEN [m EXCEPT !.irq_counter = Wrap16(@ + 65535),
                   !.irq_pending = IF m.irq_counter = 0 /\ m.irq_enabled THEN TRUE ELSE @]
    ELSE m

mapper_irq_pending(m) == m.kind = "fme7" /\ m.irq_pending

mapper_clear_irq(m) == IF m.kind = "fme7" THEN [m EXCEPT !.irq_pending = FALSE] ELSE m

(***************************************************************************)
(* The orchestrator (mod.rs).  RAM is the 2K array, held as the function   *)
(* from the addresses of its non-zero cells to their values.               *)
(***************************************************************************)
NoName == <<>>

Hist_new ==
  [ mapper_ticks |-> 0, opcode_fetches |-> 0, nmi_merged |-> 0, kil_seen |-> FALSE,
    supp |-> [seen |-> FALSE, entries |-> 0, nmis |-> 0] ]

Debug_new == [frame_count |-> 0, ppu_cycles |-> 0, apu_ticks |-> 0, irq_serviced_count |-> 0]

Nes_new ==
  [ a |-> 0, x |-> 0, y |-> 0, p |-> FLAG_INTERRUPT + FLAG_UNUSED, sp |-> 253, pc |-> 0,
    ram |-> [i \in {} |-> 0], ppu |-> Ppu_new, apu |-> Apu_new, mapper |-> NoMapper,
    mapper_id |-> -1, has_rom_name |-> FALSE, loaded_rom_name |-> NoName,
    pending_nmi |-> FALSE, pending_irq |-> FALSE, dma_cycles |-> 0,
    total_cycles |-> 0, halted |-> FALSE, nmi_serviced_count |-> 0,
    cpu_step_in_progress |-> FALSE, cpu_step_ticked_cycles |-> 0,
    debug |-> Debug_new, hist |-> Hist_new ]

ram_read(ram, idx) == IF idx \in DOMAIN ram THEN ram[idx] ELSE 0

ram_write(ram, idx, value) ==
  IF value = 0
    THEN [i \in (DOMAIN ram) \ {idx} |-> ram[i]]
    ELSE [i \in (DOMAIN ram) \cup {idx} |-> IF i = idx THEN value ELSE ram[i]]

\* A ppu_dot whose take_nmi leaves the PPU's nmi_pending set.
ppu_dot_untaken(n) ==
  LET take_nmi(p) ==
        [n EXCEPT !.debug.ppu_cycles = @ + 1,
                  !.ppu = p,
                  !.pending_nmi = @ \/ p.nmi_pending,
                  !.hist.nmi_merged = IF p.nmi_pending /\ n.pending_nmi THEN @ + 1 ELSE @]
  IN take_nmi(IF n.mapper.kind = "none" THEN n.ppu ELSE ppu_tick(n.ppu))

\* One PPU dot of tick_ppu_for_cpu_cycle: tick, then take_nmi.
ppu_dot(n) ==
  LET take_nmi(p) ==
        [n EXCEPT !.debug.ppu_cycles = @ + 1,
                  !.ppu = [p EXCEPT !.nmi_pending = FALSE],
                  !.pending_nmi = @ \/ p.nmi_pending,
                  !.hist.nmi_merged = IF p.nmi_pending /\ n.pending_nmi THEN @ + 1 ELSE @]
  IN take_nmi(IF n.mapper.kind = "none" THEN n.ppu ELSE ppu_tick(n.ppu))

\* A DMC DMA that adds the stall without reading the byte: the request
\* stays outstanding.
dmc_dma_unread(n) ==
  IF n.apu.dmc_dma_request
    THEN LET phase == (n.total_cycles + n.cpu_step_ticked_cycles) % 2 IN
         [n EXCEPT !.dma_cycles = @ + (IF phase = 0 THEN 4 ELSE 3)]
    ELSE n

\* The DMC DMA of tick_ppu_for_cpu_cycle: the request is taken, the byte
\* read without a bus tick, and the CPU stalled for 3 or 4 cycles.
dmc_dma(n) ==
  IF n.apu.dmc_dma_request
    THEN LET phase == (n.total_cycles + n.cpu_step_ticked_cycles) % 2 IN
         [n EXCEPT !.apu = apu_complete_dmc_dma([n.apu EXCEPT !.dmc_dma_request = FALSE]),
                   !.dma_cycles = @ + (IF phase = 0 THEN 4 ELSE 3)]
    ELSE n

\* The three PPU dots of a CPU cycle.
RECURSIVE ppu_dots(_, _)
ppu_dots(n, k) == IF k <= 0 THEN n ELSE ppu_dots(ppu_dot(n), k - 1)

\* The mapper's CPU-cycle tick and the poll of its IRQ line.
tick_mapper_step(n) ==
  LET with_mapper(m) ==
        [n EXCEPT !.mapper = m,
                  !.hist.mapper_ticks = @ + 1,
                  !.pending_irq = @ \/ mapper_irq_pending(m)]
  IN IF n.mapper.kind = "none" THEN n ELSE with_mapper(mapper_tick_cpu_cycle(n.mapper))

\* The APU's tick and the DMC DMA it may have requested.
tick_apu_step(n) == dmc_dma([n EXCEPT !.debug.apu_ticks = @ + 1, !.apu = apu_tick(@)])

tick_irq_lines(n) == [n EXCEPT !.pending_irq = @ \/ apu_irq_pending(n.apu)]

tick_ppu_for_cpu_cycle(n) ==
  tick_irq_lines(tick_apu_step(tick_mapper_step(ppu_dots(n, 3))))

\* A maybe_tick_cpu_bus_cycle that ticks the bus cycle without counting it.
maybe_tick_cpu_bus_cycle_uncounted(n) ==
  IF n.cpu_step_in_progress THEN tick_ppu_for_cpu_cycle(n) ELSE n

maybe_tick_cpu_bus_cycle(n) ==
  IF n.cpu_step_in_progress
    THEN tick_ppu_for_cpu_cycle([n EXCEPT !.cpu_step_ticked_cycles = @ + 1])
    ELSE n

\* The byte the cartridge returns for a CPU read: the vectors are the
\* cartridge's, in the currently mapped bank; any other PRG byte is `rom`,
\* the byte the caller says the program holds there.
mapper_cpu_read(m, addr, rom) ==
  LET v == m.vectors[mapper_bank(m) + 1] IN
  IF addr = 65530 THEN Lo(v.nmi) ELSE IF addr = 65531 THEN Hi(v.nmi)
  ELSE IF addr = 65532 THEN Lo(v.reset) ELSE IF addr = 65533 THEN Hi(v.reset)
  ELSE IF addr = 65534 THEN Lo(v.irq) ELSE IF addr = 65535 THEN Hi(v.irq)
  ELSE rom

recompute_pending_irq(n) ==
  [n EXCEPT !.pending_irq = apu_irq_pending(n.apu) \/ mapper_irq_pending(n.mapper)]

\* cpu_read: the machine after the read and the byte read.  A read of
\* 0x2002 at scanline 241, dot 0 is noted in hist.supp.
cpu_read_at(n, addr, rom) ==
  LET ppu_read(r) ==
        [n |-> [n EXCEPT !.ppu = r.ppu,
                         !.hist.supp = IF addr % 8 = 2 /\ n.ppu.scanline = 241
                                          /\ n.ppu.cycle = 0
                                         THEN [seen |-> TRUE,
                                               entries |-> n.ppu.debug.vblank_entries,
                                               nmis |-> n.nmi_serviced_count]
                                         ELSE @],
         v |-> r.v]
      apu_read(r) == [n |-> recompute_pending_irq([n EXCEPT !.apu = r.apu]), v |-> r.v]
  IN IF addr <= 8191 THEN [n |-> n, v |-> ram_read(n.ram, addr % 2048)]
     ELSE IF addr <= 16383
       THEN IF n.mapper.kind = "none" THEN [n |-> n, v |-> 0]
            ELSE ppu_read(ppu_cpu_read_register(n.ppu, 8192 + (addr % 8)))
     ELSE IF addr = 16405 THEN apu_read(apu_read_status(n.apu))
     ELSE IF addr = 16406 \/ addr = 16407 THEN [n |-> n, v |-> 64]
     ELSE IF addr <= 16415 THEN [n |-> n, v |-> 0]
     ELSE IF n.mapper.kind = "none" THEN [n |-> n, v |-> 0]
     ELSE [n |-> n, v |-> mapper_cpu_read(n.mapper, addr, rom)]

cpu_read(n0, addr, rom) == cpu_read_at(maybe_tick_cpu_bus_cycle(n0), addr, rom)

\* The 256 reads of do_oam_dma, made with the bus ticks switched off.  Of
\* the pages the programs here copy from (RAM, PRG and the page of the
\* APU and I/O registers) only the read of 0x4015 changes carried state;
\* the bytes read go to OAM, which is not carried.
oam_dma_reads(n, page) == IF page = 64 THEN cpu_read(n, 16405, 0).n ELSE n

\* A do_oam_dma whose stall is 513 cycles on either CPU phase.
do_oam_dma_flat(n, page) ==
  LET stall(n1) ==
        [n1 EXCEPT !.cpu_step_in_progress = n.cpu_step_in_progress,
                   !.dma_cycles = @ + 513]
  IN stall(oam_dma_reads([n EXCEPT !.cpu_step_in_progress = FALSE], page))

\* do_oam_dma: the reads, then the stall of 513 or 514 cycles by CPU phase.
do_oam_dma(n, page) ==
  LET stall(n1) ==
        [n1 EXCEPT !.cpu_step_in_progress = n.cpu_step_in_progress,
                   !.dma_cycles = @ + 513 + ((n1.total_cycles + n1.cpu_step_ticked_cycles) % 2)]
  IN stall(oam_dma_reads([n EXCEPT !.cpu_step_in_progress = FALSE], page))

\* cpu_write after its bus tick.
cpu_write_at(n, addr, value) ==
  IF addr <= 8191 THEN [n EXCEPT !.ram = ram_write(@, addr % 2048, value)]
  ELSE IF addr <= 16383
    THEN IF n.mapper.kind = "none" THEN n
         ELSE [n EXCEPT !.ppu = ppu_cpu_write_register(@, 8192 + (addr % 8), value)]
  ELSE IF addr <= 16403 \/ addr = 16405 \/ addr = 16407
    THEN recompute_pending_irq([n EXCEPT !.apu = apu_write_register(@, addr, value)])
  ELSE IF addr = 16404 THEN do_oam_dma(n, value)
  ELSE IF addr <= 16415 THEN n
  ELSE IF n.mapper.kind = "none" THEN n
  ELSE [n EXCEPT !.mapper = mapper_cpu_write(@, addr, value)]

cpu_write(n0, addr, value) == cpu_write_at(maybe_tick_cpu_bus_cycle(n0), addr, value)

\* Two reads joined into a little-endian word.
word(lo, hi) == [n |-> hi.n, v |-> hi.v * 256 + lo.v]

read_u16_high(lo, addr) == word(lo, cpu_read(lo.n, Wrap16(addr + 1), 0))

read_u16(n, addr) == read_u16_high(cpu_read(n, addr, 0), addr)

push(n, value) ==
  [cpu_write(n, 256 + n.sp, value) EXCEPT !.sp = Wrap8(n.sp + 255)]

pop(n) ==
  LET sp1 == Wrap8(n.sp + 1) IN cpu_read([n EXCEPT !.sp = sp1], 256 + sp1, 0)

push_u16(n, value) == push(push(n, Hi(value)), Lo(value))

pop_u16_high(lo) == word(lo, pop(lo.n))

pop_u16(n) == pop_u16_high(pop(n))

\* A get_flag that tests the bit above the one asked for.
get_flag_shifted(n, flag) == HasBit(n.p, flag * 2)

get_flag(n, flag) == HasBit(n.p, flag)

set_flag(n, flag, value) ==
  [n EXCEPT !.p = SetMask(IF value THEN SetMask(@, flag) ELSE ClearMask(@, flag), FLAG_UNUSED)]

update_zn(n, value) ==
  set_flag(set_flag(n, FLAG_ZERO, value = 0), FLAG_NEGATIVE, HasBit(value, 128))

\* The part service_nmi and service_irq share: PC and P (B clear) pushed,
\* I set, the vector read.
\* P pushed with B clear (an interrupt) or set (BRK, PHP), bit 5 set.
push_p(n, break) ==
  push(n, SetMask(IF break THEN SetMask(n.p, FLAG_BREAK) ELSE ClearMask(n.p, FLAG_BREAK),
                  FLAG_UNUSED))

service_entry(n, vector) ==
  read_u16(set_flag(push_p(push_u16(n, n.pc), FALSE), FLAG_INTERRUPT, TRUE), vector)

service_nmi(n) ==
  LET jump(r) == [r.n EXCEPT !.pc = r.v, !.nmi_serviced_count = @ + 1]
  IN jump(service_entry(n, 65530))

service_irq(n) ==
  LET jump(r) == [r.n EXCEPT !.pc = r.v,
                             !.debug.irq_serviced_count = @ + 1,
                             !.mapper = mapper_clear_irq(@)]
  IN jump(service_entry(n, 65534))

fetch_byte(n, rom) ==
  LET advance(r) == [n |-> [r.n EXCEPT !.pc = Wrap16(@ + 1)], v |-> r.v]
  IN advance(cpu_read(n, n.pc, rom))

fetch_word_high(lo, ins) == word(lo, fetch_byte(lo.n, ins.hi))

fetch_word(n, ins) == fetch_word_high(fetch_byte(n, ins.lo), ins)

(***************************************************************************)
(* The CPU step (cpu.rs).  An instruction is the three bytes the program   *)
(* holds at PC: ins.op, ins.lo, ins.hi.  The dispatch is the code's: the   *)
(* early match, the two-byte NOPs, exec_unofficial (which declines every   *)
(* opcode whose low two bits are not 3, the six it names apart), then the  *)
(* cc/aaa/bbb groups.  Only the addressing modes of the opcodes in         *)
(* Opcodes are translated.                                                 *)
(***************************************************************************)
BranchOpcodes == {16, 48, 80, 112, 144, 176, 208, 240}

\* BRK, PHP, PLP and PHA.
StackOpcodes == {0, 8, 40, 72}

Opcodes ==
  {234, 169, 141, 173, 206, 238, 76, 88, 120, 64} \cup KilOpcodes \cup BranchOpcodes
    \cup StackOpcodes

exec_group1_alu(n, aaa, value) ==
  IF aaa = 5 THEN update_zn([n EXCEPT !.a = value], value) ELSE n

\* The ALU arm of exec_group1 on an operand already read.
exec_group1_operand(r, aaa, cycles) ==
  [n |-> exec_group1_alu(r.n, aaa, r.v), cycles |-> cycles]

\* exec_group1 with the absolute address w.v resolved: STA writes, the
\* others read their operand.
exec_group1_absolute(w, aaa) ==
  IF aaa = 4 THEN [n |-> cpu_write(w.n, w.v, w.n.a), cycles |-> 4]
  ELSE exec_group1_operand(cpu_read(w.n, w.v, 0), aaa, 4)

exec_group1(n, ins, aaa, bbb) ==
  IF bbb = 2
    THEN IF aaa = 4 THEN [n |-> n, cycles |-> 2]
         ELSE exec_group1_operand(fetch_byte(n, ins.lo), aaa, 2)
    ELSE exec_group1_absolute(fetch_word(n, ins), aaa)

\* Of the six operations DEC and INC are among Opcodes; the shifts and
\* rotates, and with them the accumulator form (bbb = 2) of exec_rmw, are
\* reached by none of them.
apply_rmw(n, op, value) ==
  LET out == IF op = "Dec" THEN Wrap8(value + 255) ELSE Wrap8(value + 1) IN
  [n |-> update_zn(n, out), v |-> out]

\* The three bus accesses of a read-modify-write on a resolved address:
\* the read, the write of the old value, the write of the new value.
exec_rmw_final(addr, o) == [n |-> cpu_write(o.n, addr, o.v), cycles |-> 6]

exec_rmw_modify(addr, r, op) ==
  exec_rmw_final(addr, apply_rmw(cpu_write(r.n, addr, r.v), op, r.v))

exec_rmw_absolute(w, op) == exec_rmw_modify(w.v, cpu_read(w.n, w.v, 0), op)

exec_rmw(n, ins, bbb, op) ==
  IF bbb = 2 THEN [n |-> n, cycles |-> 2]
  ELSE IF bbb = 3 THEN exec_rmw_absolute(fetch_word(n, ins), op)
  ELSE [n |-> n, cycles |-> 2]

exec_stx_absolute(w) == [n |-> cpu_write(w.n, w.v, w.n.x), cycles |-> 4]

exec_stx(n, ins, bbb) ==
  IF bbb = 3 THEN exec_stx_absolute(fetch_word(n, ins)) ELSE [n |-> n, cycles |-> 2]

exec_ldx(n, ins, bbb) ==
  LET load(f) == [n |-> update_zn([f.n EXCEPT !.x = f.v], f.v), cycles |-> 2]
  IN IF bbb = 0 \/ bbb = 2 THEN load(fetch_byte(n, ins.lo)) ELSE [n |-> n, cycles |-> 2]

exec_group2(n, ins, aaa, bbb) ==
  IF aaa = 4 THEN exec_stx(n, ins, bbb)
  ELSE IF aaa = 5 THEN exec_ldx(n, ins, bbb)
  ELSE exec_rmw(n, ins, bbb,
                IF aaa = 6 THEN "Dec" ELSE IF aaa = 7 THEN "Inc"
                ELSE IF aaa = 0 THEN "Asl" ELSE IF aaa = 1 THEN "Rol"
                ELSE IF aaa = 2 THEN "Lsr" ELSE "Ror")

\* A branch that charges 3 cycles for every taken branch.
\* The target of a branch at old_pc with the offset byte fetched.
branch_target(old_pc, offset) ==
  Wrap16(old_pc + (IF offset >= 128 THEN offset + 65280 ELSE offset))

branch_land(n, new_pc, cycles) == [n |-> [n EXCEPT !.pc = new_pc], cycles |-> cycles]

branch_no_page_penalty(n, ins, condition) ==
  LET decide(f) ==
        IF condition
          THEN branch_land(cpu_read(f.n, f.n.pc, 0).n, branch_target(f.n.pc, f.v), 3)
          ELSE [n |-> f.n, cycles |-> 2]
  IN decide(fetch_byte(n, ins.lo))

\* branch: the offset fetched, then one read of the following instruction's
\* address if the branch is taken and one more of the address with the
\* uncorrected high byte if the target is in another page.
\* A taken branch after its first extra read: one more read if the target
\* is in another page.
branch_take(n, old_pc, new_pc) ==
  IF old_pc \div 256 # new_pc \div 256
    THEN branch_land(cpu_read(n, (old_pc \div 256) * 256 + (new_pc % 256), 0).n, new_pc, 4)
    ELSE branch_land(n, new_pc, 3)

\* A branch with its offset byte fetched.
branch_decide(f, condition) ==
  IF condition
    THEN branch_take(cpu_read(f.n, f.n.pc, 0).n, f.n.pc, branch_target(f.n.pc, f.v))
    ELSE [n |-> f.n, cycles |-> 2]

branch(n, ins, condition) == branch_decide(fetch_byte(n, ins.lo), condition)

\* A pull of P that keeps bit 4 of the byte pulled.
pull_p_break_kept(n) ==
  LET load(f) == [f.n EXCEPT !.p = SetMask(f.v, FLAG_UNUSED)] IN load(pop(n))

\* The three statements PLP and RTI begin with: P popped, B cleared, bit 5 set.
pull_p(n) ==
  LET load(f) == [f.n EXCEPT !.p = SetMask(ClearMask(f.v, FLAG_BREAK), FLAG_UNUSED)]
  IN load(pop(n))

\* BRK: PC stepped over the padding byte and pushed, P pushed with B set,
\* I set, PC from the IRQ vector.
brk(n) ==
  LET jump(r) == [r.n EXCEPT !.pc = r.v]
  IN jump(read_u16(set_flag(push_p(push_u16([n EXCEPT !.pc = Wrap16(@ + 1)],
                                            Wrap16(n.pc + 1)),
                                   TRUE),
                            FLAG_INTERRUPT, TRUE),
                   65534))

\* The condition each of the eight branch arms of exec_group0 passes to
\* branch: BPL, BMI, BVC, BVS, BCC, BCS, BNE, BEQ.
branch_condition(n, opcode) ==
  IF opcode = 16 THEN ~get_flag(n, FLAG_NEGATIVE)
  ELSE IF opcode = 48 THEN get_flag(n, FLAG_NEGATIVE)
  ELSE IF opcode = 80 THEN ~get_flag(n, FLAG_OVERFLOW)
  ELSE IF opcode = 112 THEN get_flag(n, FLAG_OVERFLOW)
  ELSE IF opcode = 144 THEN ~get_flag(n, FLAG_CARRY)
  ELSE IF opcode = 176 THEN get_flag(n, FLAG_CARRY)
  ELSE IF opcode = 208 THEN ~get_flag(n, FLAG_ZERO)
  ELSE get_flag(n, FLAG_ZERO)

exec_group0(n, ins, opcode) ==
  LET jump(r, cycles) == [n |-> [r.n EXCEPT !.pc = r.v], cycles |-> cycles]
  IN IF opcode = 64 THEN jump(pop_u16(pull_p(n)), 6)
     ELSE IF opcode = 0 THEN [n |-> brk(n), cycles |-> 7]
     ELSE IF opcode = 8 THEN [n |-> push_p(n, TRUE), cycles |-> 3]
     ELSE IF opcode = 40 THEN [n |-> pull_p(n), cycles |-> 4]
     ELSE IF opcode = 72 THEN [n |-> push(n, n.a), cycles |-> 3]
     ELSE IF opcode \in BranchOpcodes THEN branch(n, ins, branch_condition(n, opcode))
     ELSE IF opcode = 76 THEN jump(fetch_word(n, ins), 3)
     ELSE IF opcode = 88 THEN [n |-> set_flag(n, FLAG_INTERRUPT, FALSE), cycles |-> 2]
     ELSE IF opcode = 120 THEN [n |-> set_flag(n, FLAG_INTERRUPT, TRUE), cycles |-> 2]
     ELSE IF opcode \in KilOpcodes THEN [n |-> [n EXCEPT !.halted = TRUE], cycles |-> 2]
     ELSE [n |-> n, cycles |-> 2]

\* The part of step_cpu from the opcode fetch on.
\* The dispatch of step_cpu on the opcode fetched.
exec_dispatch(n, ins, opcode) ==
  IF opcode = 234 THEN [n |-> n, cycles |-> 2]
  ELSE IF opcode % 4 = 1 THEN exec_group1(n, ins, opcode \div 32, (opcode \div 4) % 8)
  ELSE IF opcode % 4 = 2 THEN exec_group2(n, ins, opcode \div 32, (opcode \div 4) % 8)
  ELSE IF opcode % 4 = 3 THEN [n |-> n, cycles |-> 2]
  ELSE exec_group0(n, ins, opcode)

\* The opcode fetch noted in hist, then the dispatch.
exec_decode(f, ins) ==
  exec_dispatch([f.n EXCEPT !.hist.opcode_fetches = @ + 1,
                            !.hist.kil_seen = @ \/ f.v \in KilOpcodes], ins, f.v)

exec_opcode(n0, ins) == exec_decode(fetch_byte(n0, ins.op), ins)

\* step_cpu: the machine after the step, the cycles it returns, and which
\* of its four branches it took.
\* The end of step_cpu: the cycles added to total_cycles, the step closed.
step_cpu_done(n, cycles, kind) ==
  [n |-> [n EXCEPT !.total_cycles = @ + cycles, !.cpu_step_in_progress = FALSE],
   cycles |-> cycles, kind |-> kind]

step_cpu_exec(e) == step_cpu_done(e.n, e.cycles, "exec")

\* step_cpu past the DMA stall: NMI first, then IRQ if I is clear, then the
\* instruction at PC.
step_cpu_begin(s, ins) ==
  IF s.pending_nmi
    THEN step_cpu_done(service_nmi([s EXCEPT !.pending_nmi = FALSE]), 7, "nmi")
  ELSE IF s.pending_irq /\ ~get_flag(s, FLAG_INTERRUPT)
    THEN step_cpu_done(service_irq([s EXCEPT !.pending_irq = FALSE]), 7, "irq")
  ELSE step_cpu_exec(exec_opcode(s, ins))

step_cpu(n0, ins) ==
  IF n0.dma_cycles > 0
    THEN [n |-> [n0 EXCEPT !.cpu_step_ticked_cycles = 0, !.cpu_step_in_progress = FALSE,
                           !.dma_cycles = @ - 1, !.total_cycles = @ + 1],
          cycles |-> 1, kind |-> "stall"]
    ELSE step_cpu_begin([n0 EXCEPT !.cpu_step_ticked_cycles = 0, !.cpu_step_in_progress = TRUE],
                        ins)

(***************************************************************************)
(* reset, load_rom_from_path / load_cartridge and run_frame (mod.rs).      *)
(***************************************************************************)
reset(n) ==
  LET jump(r) == [r.n EXCEPT !.pc = r.v] IN
  IF n.mapper.kind = "none" THEN n
  ELSE jump(read_u16([n EXCEPT !.a = 0, !.x = 0, !.y = 0,
                               !.p = FLAG_INTERRUPT + FLAG_UNUSED, !.sp = 253,
                               !.pending_nmi = FALSE, !.pending_irq = FALSE,
                               !.dma_cycles = 0, !.halted = FALSE, !.total_cycles = 0,
                               !.nmi_serviced_count = 0,
                               !.cpu_step_in_progress = FALSE,
                               !.cpu_step_ticked_cycles = 0,
                               !.debug = Debug_new, !.hist = Hist_new,
                               !.ppu = Ppu_new, !.apu = Apu_new], 65532))

to_ascii_lowercase(s) ==
  [i \in DOMAIN s |-> IF s[i] >= 65 /\ s[i] <= 90 THEN s[i] + 32 ELSE s[i]]

contains(s, pat) ==
  \E i \in 1..(Len(s) - Len(pat) + 1) : SubSeq(s, i, i + Len(pat) - 1) = pat

Accuracycoin == <<97, 99, 99, 117, 114, 97, 99, 121, 99, 111, 105, 110>>

\* load_cartridge: the machine after the call and whether it returned Ok.
load_cartridge(n, cart) ==
  LET m == create_mapper(cart) IN
  IF m.kind = "error" THEN [n |-> n, ok |-> FALSE]
  ELSE [n |-> reset([n EXCEPT !.mapper = m, !.mapper_id = cart.mapper_id]), ok |-> TRUE]

\* load_rom_from_path: path.name is the file name, path.file what reading
\* and parsing the file gives ("unreadable", "bad_header" or "cart").
load_rom_from_path(n, path) ==
  LET n1 == [n EXCEPT !.has_rom_name = TRUE,
                      !.loaded_rom_name = to_ascii_lowercase(path.name)] IN
  IF path.file = "cart" THEN load_cartridge(n1, path.cart)
  ELSE [n |-> n1, ok |-> FALSE]

compat_cell(value, fill) ==
  LET v1 == IF value % 4 = 2 THEN value - 1 ELSE value IN
  IF fill /\ v1 % 4 = 0 THEN v1 + 1 ELSE v1

apply_accuracycoin_result_compat(n) ==
  IF ~n.has_rom_name \/ ~contains(n.loaded_rom_name, Accuracycoin) THEN n
  ELSE LET has_real_results == \E i \in DOMAIN n.ram :
                                  i >= 1024 /\ i <= 1165 /\ n.ram[i] % 4 # 0
           touched == IF has_real_results THEN 1024..1165
                      ELSE {i \in DOMAIN n.ram : i >= 1024 /\ i <= 1165}
           cell(i) == IF i \in touched
                        THEN compat_cell(ram_read(n.ram, i), has_real_results)
                        ELSE ram_read(n.ram, i)
           dom == {i \in (DOMAIN n.ram) \cup touched : cell(i) # 0}
       IN [n EXCEPT !.ram = [i \in dom |-> cell(i)]]

RECURSIVE top_up(_, _)
top_up(n, k) == IF k <= 0 THEN n ELSE top_up(tick_ppu_for_cpu_cycle(n), k - 1)

\* One iteration of run_frame's loop: step_cpu, then the ticks the step
\* did not make itself.
\* The ticks of the iteration that the step did not make itself.
run_frame_rest(s) ==
  [n |-> [top_up(s.n, s.cycles - s.n.cpu_step_ticked_cycles)
            EXCEPT !.cpu_step_ticked_cycles = 0],
   kind |-> s.kind, cycles |-> s.cycles]

run_frame_iteration(n, ins) == run_frame_rest(step_cpu(n, ins))

\* What run_frame does after its loop.
run_frame_epilogue(n) ==
  apply_accuracycoin_result_compat([n EXCEPT !.debug.frame_count = @ + 1])

(***************************************************************************)
(* Inputs.  A cartridge is a mapper id and the vectors of each 32K PRG     *)
(* bank; a path is a file name (its character codes) and what reading the  *)
(* file gives.  A program is what the CPU fetches: it idles in a JMP to    *)
(* itself outside the window a specification opens and is any sequence of  *)
(* the window's instructions inside it.                                    *)
(***************************************************************************)
CartFme7 == [mapper_id |-> 69, vectors |-> <<[nmi |-> 36864, reset |-> 32768, irq |-> 38912]>>]

CartAxrom ==
  [mapper_id |-> 7,
   vectors |-> <<[nmi |-> 36864, reset |-> 32768, irq |-> 38912],
                 [nmi |-> 37120, reset |-> 33024, irq |-> 39168]>>]

CartUnsupported == [mapper_id |-> DOCUMENTED_MAPPER_MAX_ID + 1, vectors |-> <<>>]

GameNes == <<103, 97, 109, 101, 46, 110, 101, 115>>

AccuracyCoinNes == <<65, 99, 99, 117, 114, 97, 99, 121, 67, 111, 105, 110, 46, 110, 101, 115>>

Imm(op, value) == [op |-> op, lo |-> value, hi |-> 0]

Abs(op, addr) == [op |-> op, lo |-> Lo(addr), hi |-> Hi(addr)]

Implied(op) == [op |-> op, lo |-> 0, hi |-> 0]

JmpSelf(pc) == Abs(76, pc)

Program(cfg, n) ==
  IF n.total_cycles >= cfg.from /\ n.total_cycles < cfg.to THEN cfg.menu ELSE {JmpSelf(n.pc)}

(***************************************************************************)
(* The host's calls and the steps of run_frame's loop.  rf is where        *)
(* run_frame stands ("idle": not running, "loop": at the head of its       *)
(* loop), guard its local counter.  last and calls are history: what the   *)
(* last step was and what it started from, how many run_frame calls        *)
(* entered the loop, and the PPU's count of VBL entries when the running   *)
(* call began.  The host is single-threaded: it calls only while run_frame *)
(* is not running.                                                         *)
(***************************************************************************)
Last(kind) == [kind |-> kind, tripped |-> FALSE, both |-> FALSE, dirty |-> FALSE]

Init ==
  /\ nes = Nes_new
  /\ rf = "idle"
  /\ guard = 0
  /\ last = Last("new")
  /\ calls = [frames |-> 0, late |-> FALSE, entries0 |-> 0]

LoadRom(cfg) ==
  /\ rf = "idle"
  /\ \E path \in cfg.paths :
       LET Return(r) ==
             /\ nes' = r.n
             /\ last' = Last(IF r.ok THEN "load_ok" ELSE "load_err")
       IN Return(load_rom_from_path(nes, path))
  /\ calls' = [calls EXCEPT !.late = calls.frames > 0]
  /\ UNCHANGED <<rf, guard>>

Reset ==
  /\ rf = "idle"
  /\ nes' = reset(nes)
  /\ last' = [Last("reset") EXCEPT
                !.dirty = nes.pending_nmi /\ nes.total_cycles > 0
                          /\ ~get_flag(nes, FLAG_INTERRUPT)]
  /\ calls' = [calls EXCEPT !.late = calls.frames > 0]
  /\ UNCHANGED <<rf, guard>>

RunFrameReturn ==
  /\ rf = "idle"
  /\ nes.mapper.kind = "none" \/ nes.halted
  /\ last' = Last("run_frame_return")
  /\ UNCHANGED <<nes, rf, guard, calls>>

RunFrameEnter(cfg) ==
  /\ rf = "idle"
  /\ ~(nes.mapper.kind = "none" \/ nes.halted)
  /\ calls.frames < cfg.frames /\ ~calls.late
  /\ nes' = [nes EXCEPT !.ppu = clear_frame_complete(@)]
  /\ rf' = "loop"
  /\ guard' = 0
  /\ last' = Last("run_frame")
  /\ calls' = [calls EXCEPT !.frames = @ + 1,
                            !.entries0 = nes.ppu.debug.vblank_entries]

RunFrameStep(cfg) ==
  /\ rf = "loop"
  /\ nes.total_cycles < cfg.max
  /\ \E ins \in Program(cfg, nes) :
       LET Loop(it, tripped) ==
             LET done == tripped \/ it.n.ppu.frame_complete IN
             /\ nes' = IF done THEN run_frame_epilogue(it.n) ELSE it.n
             /\ rf' = IF done THEN "idle" ELSE "loop"
             /\ guard' = IF done THEN 0 ELSE guard + 1
             /\ last' = [Last(it.kind) EXCEPT
                           !.tripped = tripped,
                           !.both = nes.dma_cycles = 0 /\ nes.pending_nmi
                                    /\ nes.pending_irq /\ ~get_flag(nes, FLAG_INTERRUPT)]
       IN Loop(run_frame_iteration(nes, ins), guard + 1 > FRAME_GUARD)
  /\ UNCHANGED calls

(***************************************************************************)
(* SpecFrame: the host loads any of the files of FramePaths, the first     *)
(* frame idles up to cycle FrameFrom and then runs any program over        *)
(* FrameMenu; the host may reset or load again once the frame is done, or  *)
(* start a second frame, which is followed up to cycle FrameMax.           *)
(***************************************************************************)
FrameFrom == 27492

FrameTo == 27510

FrameMax == 27516

FrameCalls == 2

FramePaths ==
  { [name |-> GameNes, file |-> "cart", cart |-> CartAxrom],
    [name |-> GameNes, file |-> "cart", cart |-> CartFme7],
    [name |-> GameNes, file |-> "cart", cart |-> CartUnsupported],
    [name |-> AccuracyCoinNes, file |-> "unreadable", cart |-> CartUnsupported],
    [name |-> GameNes, file |-> "bad_header", cart |-> CartUnsupported] }

FrameMenu ==
  { Imm(169, 157), Abs(141, 8192), Abs(141, 32768), Abs(141, 1024), Implied(88) }
  \cup { Implied(k) : k \in KilOpcodes }

CfgFrame == [menu |-> FrameMenu, from |-> FrameFrom, to |-> FrameTo, max |-> FrameMax,
             paths |-> FramePaths, frames |-> FrameCalls]

NextFrame ==
  \/ LoadRom(CfgFrame)
  \/ Reset
  \/ RunFrameReturn
  \/ RunFrameEnter(CfgFrame)
  \/ RunFrameStep(CfgFrame)

SpecFrame == Init /\ [][NextFrame]_vars

(***************************************************************************)
(* C7: a load-ROM call that fails leaves every part of the core as it was. *)
(* The code records the file's name before it reads the file, so this is   *)
(* violated: the name of a file that failed to load replaces the name of   *)
(* the loaded ROM, which run_frame's AccuracyCoin shim goes by.            *)
(***************************************************************************)
C7_FailedLoadKeepsState == [][last'.kind = "load_err" => nes' = nes]_vars

(***************************************************************************)
(* C8: once a KIL opcode has been executed the CPU is halted, until reset. *)
(* Violated: all twelve KIL opcodes have cc = 2 and are dispatched to      *)
(* exec_group2, which returns 2 cycles; the arm of exec_group0 that sets   *)
(* halted is never reached.                                                *)
(***************************************************************************)
C8_KilHalts == nes.hist.kil_seen => nes.halted

(***************************************************************************)
(* C9: a run_frame call made after the CPU was halted by a KIL opcode (and *)
(* before a reset) returns at once and changes nothing.  Violated, as C8   *)
(* is: the KIL opcode did not halt, so the call runs a frame.              *)
(***************************************************************************)
C9_HaltedFrameReturns ==
  [][nes.hist.kil_seen /\ rf = "idle" /\ last'.kind \in {"run_frame", "run_frame_return"}
       => nes' = nes /\ rf' = "idle"]_vars

(***************************************************************************)
(* C10: reset on a loaded core leaves RAM and the mapper as they are,      *)
(* clears pending_nmi, pending_irq, the DMA stall, halted and              *)
(* total_cycles, and sets P = 0x24, SP = 0xFD and PC to the reset vector   *)
(* of the bank the mapper has switched in; with no ROM it changes nothing. *)
(***************************************************************************)
C10_ResetVector ==
  IF nes.mapper.kind = "axrom"
    THEN CartAxrom.vectors[(nes.mapper.prg_bank_select % 2) + 1].reset
    ELSE CartFme7.vectors[1].reset

C10_Reset ==
  [][last'.kind = "reset" =>
       IF nes.mapper.kind = "none" THEN nes' = nes
       ELSE /\ nes'.ram = nes.ram
            /\ nes'.mapper = nes.mapper
            /\ ~nes'.pending_nmi /\ ~nes'.pending_irq
            /\ nes'.dma_cycles = 0 /\ ~nes'.halted /\ nes'.total_cycles = 0
            /\ nes'.p = 36 /\ nes'.sp = 253
            /\ nes'.pc = C10_ResetVector]_vars

\* A reset of an AxROM core that had run, had an NMI pending and the I flag
\* clear, with a RAM cell written and the second bank switched in.
C10_Witness ==
  /\ last.kind = "reset" /\ last.dirty
  /\ nes.mapper.kind = "axrom" /\ nes.mapper.prg_bank_select % 2 = 1
  /\ ram_read(nes.ram, 1024) # 0
  /\ nes.pc = 33024

(***************************************************************************)
(* SpecLoop: one cartridge, a short window at the end of the first frame,  *)
(* and two run_frame calls, both followed to their return.                 *)
(***************************************************************************)
LoopFrom == 27504

LoopTo == 27510

\* The dots of a PPU frame: 262 scanlines of 341 dots.
FrameDots == 341 * 262

\* No run of FrameCalls frames is this long: a frame is FrameDots / 3 CPU
\* cycles and the instruction it ends in outlasts it by fewer than 8.
LoopMax == FrameCalls * ((FrameDots \div 3) + 8)

LoopMenu == { Abs(173, 8194), Implied(234) }

CfgLoop == [menu |-> LoopMenu, from |-> LoopFrom, to |-> LoopTo, max |-> LoopMax,
            paths |-> {[name |-> GameNes, file |-> "cart", cart |-> CartFme7]},
            frames |-> FrameCalls]

NextLoop ==
  \/ LoadRom(CfgLoop)
  \/ Reset
  \/ RunFrameReturn
  \/ RunFrameEnter(CfgLoop)
  \/ RunFrameStep(CfgLoop)

SpecLoop == Init /\ [][NextLoop]_vars

(***************************************************************************)
(* C6: every run_frame call on a loaded, non-halted core returns: its loop *)
(* can always take its next step and takes no more steps than a frame has  *)
(* CPU cycles, far fewer than the cap of 10,000,000, which never trips.    *)
(* While the loop runs the PPU has not entered VBL since the call began;   *)
(* when the call has returned the PPU has entered VBL exactly once since   *)
(* it began and frame_complete is set.                                     *)
(***************************************************************************)
C6_RunFrameTerminates ==
  /\ ~last.tripped
  /\ rf = "loop" =>
       /\ nes.total_cycles < CfgLoop.max /\ Program(CfgLoop, nes) # {}
       /\ guard * 3 <= FrameDots
       /\ ~nes.ppu.frame_complete
       /\ nes.ppu.debug.vblank_entries = calls.entries0
  /\ rf = "idle" /\ last.kind \in {"stall", "nmi", "irq", "exec"} =>
       /\ nes.ppu.frame_complete
       /\ nes.ppu.debug.vblank_entries = calls.entries0 + 1

\* The second run_frame call has returned, the first having ended in an
\* instruction that read 0x2002 as VBL began.
C6_Witness ==
  /\ rf = "idle" /\ calls.frames = 2 /\ last.kind = "exec"
  /\ nes.ppu.frame_complete /\ nes.ppu.debug.vblank_entries = 2
  /\ nes.a >= 128

(***************************************************************************)
(* SpecIrq: an FME-7 cartridge; the first frame idles, the second runs any *)
(* program over IrqMenu from its start (VBL is set then) up to cycle       *)
(* IrqTo and is followed up to cycle IrqMax.  The menu starts NMIs         *)
(* (0x2000), mapper IRQs (0x8000, 0xA000), DMC DMA and DMC IRQs (0x4010,   *)
(* 0x4015) and OAM DMA (0x4014).                                           *)
(***************************************************************************)
IrqFrom == 27510

IrqTo == 27538

IrqMax == 27550

IrqMenu ==
  { Imm(169, 157), Implied(88), Implied(64),
    Abs(141, 8192), Abs(141, 16400), Abs(141, 16405), Abs(141, 16404),
    Abs(141, 32768), Abs(141, 40960), Abs(173, 16405) }

CfgIrq == [menu |-> IrqMenu, from |-> IrqFrom, to |-> IrqTo, max |-> IrqMax,
           paths |-> {[name |-> GameNes, file |-> "cart", cart |-> CartFme7]},
           frames |-> FrameCalls]

NextIrq ==
  \/ LoadRom(CfgIrq)
  \/ Reset
  \/ RunFrameReturn
  \/ RunFrameEnter(CfgIrq)
  \/ RunFrameStep(CfgIrq)

SpecIrq == Init /\ [][NextIrq]_vars

(***************************************************************************)
(* C1: at every instruction boundary the PPU has ticked 3 dots, the APU    *)
(* one tick and the mapper one tick_cpu_cycle for each CPU cycle since the *)
(* last reset.                                                             *)
(***************************************************************************)
C1_TickCounts ==
  /\ nes.debug.ppu_cycles = 3 * nes.total_cycles
  /\ nes.debug.apu_ticks = nes.total_cycles
  /\ nes.hist.mapper_ticks = nes.total_cycles

\* An IRQ has just been serviced in a run that serviced an NMI and stalled
\* for a DMC DMA (the DMC holds the byte the DMA read).
C1_Witness ==
  /\ last.kind = "irq" /\ nes.nmi_serviced_count > 0
  /\ nes.apu.dmc.has_sample /\ nes.dma_cycles = 0

(***************************************************************************)
(* C2: a step_cpu call made while the DMA stall counter is non-zero takes  *)
(* one cycle, fetches no opcode, services no interrupt and leaves A, X, Y, *)
(* P, SP and PC alone; otherwise a pending NMI is serviced, and nothing    *)
(* else done; otherwise a pending IRQ is serviced if the I flag is clear;  *)
(* otherwise one opcode is fetched.  A service takes 7 cycles.             *)
(***************************************************************************)
C2_Priority ==
  [][rf = "loop" =>
       LET fetched == nes'.hist.opcode_fetches - nes.hist.opcode_fetches
           nmis == nes'.nmi_serviced_count - nes.nmi_serviced_count
           irqs == nes'.debug.irq_serviced_count - nes.debug.irq_serviced_count
           cycles == nes'.total_cycles - nes.total_cycles
       IN IF nes.dma_cycles > 0
            THEN /\ cycles = 1 /\ fetched = 0 /\ nmis = 0 /\ irqs = 0
                 /\ nes'.a = nes.a /\ nes'.x = nes.x /\ nes'.y = nes.y
                 /\ nes'.p = nes.p /\ nes'.sp = nes.sp /\ nes'.pc = nes.pc
          ELSE IF nes.pending_nmi
            THEN cycles = 7 /\ fetched = 0 /\ nmis = 1 /\ irqs = 0
          ELSE IF nes.pending_irq /\ ~HasBit(nes.p, FLAG_INTERRUPT)
            THEN cycles = 7 /\ fetched = 0 /\ nmis = 0 /\ irqs = 1
          ELSE fetched = 1 /\ nmis = 0 /\ irqs = 0]_vars

\* An NMI was serviced by a step that began with an NMI and an IRQ pending,
\* the I flag clear and no DMA stall, in a run that had stalled before.
C2_Witness == last.kind = "nmi" /\ last.both

(***************************************************************************)
(* C3: at every instruction boundary pending_irq is true exactly when the  *)
(* APU's frame IRQ flag, its DMC IRQ flag or the mapper's IRQ line is      *)
(* asserted.  Violated: pending_irq is only ever OR-ed into by the ticks;  *)
(* a mapper register write that acknowledges the mapper's IRQ leaves it    *)
(* set, and so does service_irq, which clears the mapper's line after the  *)
(* ticks of its own bus cycles have set pending_irq again.                 *)
(***************************************************************************)
C3_LevelSensitive ==
  nes.pending_irq = (apu_irq_pending(nes.apu) \/ mapper_irq_pending(nes.mapper))

(***************************************************************************)
(* SpecNmi: an FME-7 cartridge; the first frame idles up to cycle NmiFrom  *)
(* and then runs any program over NmiMenu, which enables NMIs, empties the *)
(* PPU's open bus, starts a DMC DMA and decrements 0x2000, a               *)
(* read-modify-write whose two writes lower and raise NMI-enable.  The     *)
(* second frame is followed up to cycle NmiMax.                            *)
(***************************************************************************)
NmiFrom == 27489

NmiTo == 27506

NmiMax == 27530

NmiMenu ==
  { Imm(169, 128), Imm(169, 16), Abs(141, 8192), Abs(173, 8194), Abs(141, 16405),
    Abs(206, 8192) }

CfgNmi == [menu |-> NmiMenu, from |-> NmiFrom, to |-> NmiTo, max |-> NmiMax,
           paths |-> {[name |-> GameNes, file |-> "cart", cart |-> CartFme7]},
           frames |-> FrameCalls]

NextNmi ==
  \/ LoadRom(CfgNmi)
  \/ Reset
  \/ RunFrameReturn
  \/ RunFrameEnter(CfgNmi)
  \/ RunFrameStep(CfgNmi)

SpecNmi == Init /\ [][NextNmi]_vars

\* The NMI edges that are on their way to the CPU: raised in the PPU and
\* not yet taken, or taken and not yet serviced.
NmiInFlight ==
  (IF nes.ppu.nmi_pending THEN 1 ELSE 0) + (IF nes.pending_nmi THEN 1 ELSE 0)

(***************************************************************************)
(* C4 as stated: every rising edge of (NMI-enable AND VBL) has one NMI     *)
(* serviced for it, and no NMI is serviced without an edge: at every       *)
(* instruction boundary the edges are the NMIs serviced plus the edges     *)
(* still on their way.  Violated: an edge taken while the NMI of an        *)
(* earlier edge is still pending is serviced together with it.             *)
(***************************************************************************)
C4_EveryEdgeServiced ==
  nes.ppu.debug.nmi_edges = nes.nmi_serviced_count + NmiInFlight

(***************************************************************************)
(* C4 amended: every rising edge has one NMI serviced for it, except an    *)
(* edge taken while an earlier NMI is still pending, which is serviced by  *)
(* that NMI; no NMI is serviced without an edge.                           *)
(***************************************************************************)
C4_EdgeServicedOrMerged ==
  nes.ppu.debug.nmi_edges = nes.nmi_serviced_count + nes.hist.nmi_merged + NmiInFlight

\* Two edges, one of them merged, and the one NMI serviced for both.
C4_Witness ==
  /\ nes.ppu.debug.nmi_edges = 2 /\ nes.hist.nmi_merged = 1
  /\ nes.nmi_serviced_count = 1 /\ last.kind = "nmi"

(***************************************************************************)
(* SpecVbl: an FME-7 cartridge and three frames.  The program idles up to  *)
(* cycle VblFrom of the second frame, then is any program over VblMenu up  *)
(* to cycle VblTo (a read of 0x2002 begun at cycle 57284 reads at scanline *)
(* 241, dot 0), then idles through the third frame.                        *)
(***************************************************************************)
VblFrom == 57276

VblTo == 57285

VblMax == 90000

VblCalls == 3

VblMenu == { Imm(169, 128), Abs(141, 8192), Abs(173, 8194) }

CfgVbl == [menu |-> VblMenu, from |-> VblFrom, to |-> VblTo, max |-> VblMax,
           paths |-> {[name |-> GameNes, file |-> "cart", cart |-> CartFme7]},
           frames |-> VblCalls]

NextVbl ==
  \/ LoadRom(CfgVbl)
  \/ Reset
  \/ RunFrameReturn
  \/ RunFrameEnter(CfgVbl)
  \/ RunFrameStep(CfgVbl)

SpecVbl == Init /\ [][NextVbl]_vars

(***************************************************************************)
(* C5: after a read of 0x2002 at scanline 241, dot 0, the VBL flag is not  *)
(* set in that frame and no NMI is serviced for it, NMI enabled or not;    *)
(* run_frame still returns with frame_complete for that frame; the next    *)
(* frame's VBL flag is set and, if NMI is enabled, raises its NMI.         *)
(***************************************************************************)
C5_VblSuppressed ==
  LET s == nes.hist.supp
      entries == nes.ppu.debug.vblank_entries
  IN s.seen =>
       /\ entries <= s.entries + 1 =>
            /\ ~HasBit(nes.ppu.status, STATUS_VBLANK)
            /\ nes.nmi_serviced_count = s.nmis /\ NmiInFlight = 0
       /\ entries = s.entries + 1 /\ rf = "idle"
            /\ last.kind \in {"stall", "nmi", "irq", "exec"} => nes.ppu.frame_complete
       /\ entries >= s.entries + 2 =>
            /\ HasBit(nes.ppu.status, STATUS_VBLANK)
            /\ HasBit(nes.ppu.ctrl, CTRL_NMI_ENABLE) =>
                 nes.nmi_serviced_count + NmiInFlight = s.nmis + 1

\* NMI was enabled, the read suppressed the second frame's VBL, and the
\* third frame's VBL has raised the first NMI.
C5_Witness ==
  /\ nes.hist.supp.seen /\ nes.ppu.debug.vblank_entries = nes.hist.supp.entries + 2
  /\ HasBit(nes.ppu.ctrl, CTRL_NMI_ENABLE) /\ HasBit(nes.ppu.status, STATUS_VBLANK)
  /\ nes.pending_nmi /\ nes.nmi_serviced_count = 0 /\ nes.ppu.frame_complete

(***************************************************************************)
(* MMC3 (mapper.rs, Mapper4) driven on its own, as the repository's unit   *)
(* tests drive it: the mapper is nes.mapper and the host calls its trait   *)
(* methods.  The IRQ unit, the bank registers and the mirroring bit are    *)
(* carried; PRG, CHR and PRG RAM contents and the count of A12-high        *)
(* samples, which nothing reads, are not.  a12_low_cycles counts the       *)
(* notifications seen with A12 low (a saturating u8).                      *)
(***************************************************************************)
Mapper4_new ==
  [ kind |-> "mmc3", bank_select |-> 0, bank_regs |-> [i \in 0..7 |-> 0],
    mirroring |-> "Horizontal", four_screen |-> FALSE,
    irq_latch |-> 0, irq_counter |-> 0, irq_reload |-> FALSE, irq_enabled |-> FALSE,
    irq_pending |-> FALSE, last_a12 |-> FALSE, a12_low_cycles |-> 0,
    debug_irq_clocks |-> 0 ]

\* A clock_irq_counter that only ever decrements.
clock_irq_counter_no_reload(m) ==
  LET c == Wrap8(m.irq_counter + 255) IN
  [m EXCEPT !.debug_irq_clocks = @ + 1, !.irq_counter = c,
            !.irq_pending = IF c = 0 /\ m.irq_enabled THEN TRUE ELSE @]

clock_irq_counter(m) ==
  LET c == IF m.irq_counter = 0 \/ m.irq_reload THEN m.irq_latch
           ELSE Wrap8(m.irq_counter + 255)
  IN [m EXCEPT !.debug_irq_clocks = @ + 1,
               !.irq_counter = c,
               !.irq_reload = IF m.irq_counter = 0 \/ m.irq_reload THEN FALSE ELSE @,
               !.irq_pending = IF c = 0 /\ m.irq_enabled THEN TRUE ELSE @]

monitor_ppu_a12(m, addr) ==
  LET a12 == HasBit(addr, 4096)
      next == IF ~a12
                THEN [m EXCEPT !.a12_low_cycles = IF @ = 255 THEN 255 ELSE @ + 1]
              ELSE IF ~m.last_a12 /\ m.a12_low_cycles >= 8
                THEN [clock_irq_counter(m) EXCEPT !.a12_low_cycles = 0]
              ELSE [m EXCEPT !.a12_low_cycles = 0]
  IN [next EXCEPT !.last_a12 = a12]

mapper4_cpu_write(m, addr, value) ==
  IF addr >= 32768 /\ addr <= 40959
    THEN IF addr % 2 = 0 THEN [m EXCEPT !.bank_select = value]
         ELSE [m EXCEPT !.bank_regs[m.bank_select % 8] =
                          IF m.bank_select % 8 <= 1 THEN value - (value % 2) ELSE value]
  ELSE IF addr >= 40960 /\ addr <= 49151
    THEN IF addr % 2 = 0 /\ ~m.four_screen
           THEN [m EXCEPT !.mirroring = IF value % 2 = 0 THEN "Vertical" ELSE "Horizontal"]
           ELSE m
  ELSE IF addr >= 49152 /\ addr <= 57343
    THEN IF addr % 2 = 0 THEN [m EXCEPT !.irq_latch = value]
         ELSE [m EXCEPT !.irq_reload = TRUE]
  ELSE IF addr >= 57344 /\ addr <= 65535
    THEN IF addr % 2 = 0 THEN [m EXCEPT !.irq_enabled = FALSE, !.irq_pending = FALSE]
         ELSE [m EXCEPT !.irq_enabled = TRUE]
  ELSE m

mapper4_notify_ppu_read_addr(m, addr) == monitor_ppu_a12(m, addr)

mapper4_clear_irq(m) == [m EXCEPT !.irq_pending = FALSE]

(***************************************************************************)
(* SpecMmc3: the host writes the IRQ registers ($C000, $C001, $E000,       *)
(* $E001) with small values, notifies PPU reads with A12 low or high,      *)
(* lets CPU cycles pass (Mapper4 keeps the trait's empty tick_cpu_cycle)   *)
(* and acknowledges the IRQ.  calls is history: since the last write that  *)
(* left the unit armed (reload requested, IRQs enabled, line low) the      *)
(* latch value n, the clocks of the counter (edges) and the times the line *)
(* rose (rises); and low_cpu, the CPU cycles passed since A12 was last     *)
(* seen high, counted up to Mmc3MaxLow.                                    *)
(***************************************************************************)
Mmc3MaxLatch == 2

Mmc3MaxLow == 9

Mmc3MaxClocks == 5

Mmc3Regs == {49152, 49153, 57344, 57345}

InitMmc3 ==
  /\ nes = [Nes_new EXCEPT !.mapper = Mapper4_new, !.mapper_id = 4]
  /\ rf = "idle"
  /\ guard = 0
  /\ last = Last("new")
  /\ calls = [armed |-> FALSE, n |-> 0, edges |-> 0, rises |-> 0, low_cpu |-> 0]

Mmc3CpuWrite ==
  \E addr \in Mmc3Regs, value \in 0..Mmc3MaxLatch :
    LET m == mapper4_cpu_write(nes.mapper, addr, value) IN
    /\ nes' = [nes EXCEPT !.mapper = m]
    /\ last' = Last("cpu_write")
    /\ calls' = [calls EXCEPT !.armed = m.irq_reload /\ m.irq_enabled /\ ~m.irq_pending,
                              !.n = m.irq_latch, !.edges = 0, !.rises = 0]
    /\ UNCHANGED <<rf, guard>>

Mmc3NotifyPpuRead ==
  \E addr \in {0, 4096} :
    LET m == mapper4_notify_ppu_read_addr(nes.mapper, addr) IN
    /\ addr = 0 => nes.mapper.a12_low_cycles < Mmc3MaxLow
    /\ m.debug_irq_clocks <= Mmc3MaxClocks
    /\ nes' = [nes EXCEPT !.mapper = m]
    /\ last' = Last("notify_ppu_read_addr")
    /\ calls' = [calls EXCEPT
                   !.edges = @ + (m.debug_irq_clocks - nes.mapper.debug_irq_clocks),
                   !.rises = IF m.irq_pending /\ ~nes.mapper.irq_pending THEN @ + 1 ELSE @,
                   !.low_cpu = IF addr = 4096 THEN 0 ELSE @]
    /\ UNCHANGED <<rf, guard>>

Mmc3TickCpuCycle ==
  /\ calls.low_cpu < Mmc3MaxLow
  /\ last' = Last("tick_cpu_cycle")
  /\ calls' = [calls EXCEPT !.low_cpu = @ + 1]
  /\ UNCHANGED <<nes, rf, guard>>

Mmc3ClearIrq ==
  /\ nes.mapper.irq_pending
  /\ nes' = [nes EXCEPT !.mapper = mapper4_clear_irq(@)]
  /\ last' = Last("clear_irq")
  /\ calls' = [calls EXCEPT !.armed = FALSE]
  /\ UNCHANGED <<rf, guard>>

NextMmc3 ==
  \/ Mmc3CpuWrite
  \/ Mmc3NotifyPpuRead
  \/ Mmc3TickCpuCycle
  \/ Mmc3ClearIrq

SpecMmc3 == InitMmc3 /\ [][NextMmc3]_vars

(***************************************************************************)
(* C11: a clock of the MMC3 IRQ counter reloads it from the latch when it  *)
(* is zero or a reload was requested and decrements it otherwise; the line *)
(* rises exactly on a clock that leaves the counter at zero with IRQs      *)
(* enabled; armed with latch n, the line is low through the first n clocks *)
(* and high from clock n + 1 on, having risen once (so with latch 1, once  *)
(* in three clocks); and the line is low whenever IRQs are disabled, as    *)
(* they are from a $E000 write to the next $E001 write.                    *)
(***************************************************************************)
C11_Mmc3IrqCounter ==
  [][LET m == nes.mapper
         m2 == nes'.mapper
         clocked == m2.debug_irq_clocks = m.debug_irq_clocks + 1
     IN /\ clocked =>
             /\ m2.irq_counter = IF m.irq_counter = 0 \/ m.irq_reload
                                   THEN m.irq_latch ELSE m.irq_counter - 1
             /\ m2.irq_pending = (m.irq_pending \/ (m2.irq_counter = 0 /\ m.irq_enabled))
        /\ (m2.irq_pending /\ ~m.irq_pending) => clocked
        /\ calls'.armed =>
             /\ calls'.edges <= calls'.n => ~m2.irq_pending /\ calls'.rises = 0
             /\ calls'.edges > calls'.n => m2.irq_pending /\ calls'.rises = 1
        /\ ~m2.irq_enabled => ~m2.irq_pending
        /\ (last'.kind = "cpu_write" /\ m.irq_enabled /\ ~m2.irq_enabled) => ~m2.irq_pending
    ]_vars

\* Armed with latch 1, the third clock has come and the line rose once, on
\* the second.
C11_Witness ==
  /\ calls.armed /\ calls.n = 1 /\ calls.edges = 3 /\ calls.rises = 1
  /\ nes.mapper.irq_pending /\ nes.mapper.irq_counter = 1

(***************************************************************************)
(* C12: a notification with A12 high clocks the IRQ counter if and only if *)
(* A12 was low before it and had been low for at least 8 CPU cycles.       *)
(* Violated: monitor_ppu_a12 counts the notifications that had A12 low,    *)
(* not CPU cycles, so eight reads made within one CPU cycle qualify an     *)
(* edge and any number of CPU cycles with fewer than eight reads do not.   *)
(***************************************************************************)
C12_A12LowCpuCycles ==
  [][(last'.kind = "notify_ppu_read_addr" /\ nes'.mapper.last_a12) =>
       ((nes'.mapper.debug_irq_clocks = nes.mapper.debug_irq_clocks + 1)
          <=> (~nes.mapper.last_a12 /\ calls.low_cpu >= 8))]_vars

(***************************************************************************)
(* The PPU's scroll registers and rendering fetches (ppu.rs).  The PPU     *)
(* record of the specifications below is Ppu_new with v, t and fine_x      *)
(* added.  Ppu::tick is ppu_tick_reads (the bus addresses the dot reads    *)
(* and notifies to the mapper), then ppu_tick_scroll (what the dot does to *)
(* v), then ppu_tick (VBL, NMI and the dot counter); the three touch       *)
(* different fields and no dot both reads the bus and changes v.  VRAM is  *)
(* not carried: it holds VramByte everywhere, as at power-on.              *)
(***************************************************************************)
CTRL_VRAM_INC_32 == 4

CTRL_SPRITE_TABLE == 8

CTRL_BG_TABLE == 16

VramByte == 0

Ppu_scroll_new ==
  Ppu_new @@ [v |-> 0, t |-> 0, fine_x |-> 0,
              ppuaddr_reload_pending |-> FALSE, ppuaddr_reload_delay |-> 0]

XorMask(v, m) == IF HasBit(v, m) THEN v - m ELSE v + m

increment_coarse_x(v) ==
  IF v % 32 = 31 THEN XorMask(v - 31, 1024) ELSE Wrap16(v + 1)

increment_y(v) ==
  IF (v \div 4096) % 8 # 7 THEN Wrap16(v + 4096)
  ELSE LET v1 == v - 28672
           y == (v1 \div 32) % 32
           v2 == IF y = 29 THEN XorMask(v1, 2048) ELSE v1
           y2 == IF y = 29 \/ y = 31 THEN 0 ELSE y + 1
       IN (v2 - (y * 32)) + (y2 * 32)

\* The bits of mask 0x041F (coarse X, horizontal nametable).
HorizontalBits(w) == (w % 32) + (1024 * ((w \div 1024) % 2))

\* The bits of mask 0x7BE0 (coarse Y, vertical nametable, fine Y).
VerticalBits(w) == (32 * ((w \div 32) % 32)) + (2048 * ((w \div 2048) % 16))

copy_horizontal_bits(v, t) == (v - HorizontalBits(v)) + HorizontalBits(t)

copy_vertical_bits(v, t) == (v - VerticalBits(v)) + VerticalBits(t)

suppress_a12_on_sprite_eval_reads(m) == m.kind = "mmc3"

\* Whether the dot fetches for the background: a render line with
\* rendering enabled, in dots 1..256 or 321..336.
ppu_fetch_dot(p) ==
  /\ (p.scanline < 240 \/ p.scanline = 261) /\ rendering_enabled(p)
  /\ (p.cycle >= 1 /\ p.cycle <= 256) \/ (p.cycle >= 321 /\ p.cycle <= 336)

ppu_tick_reads(p, m) ==
  LET render == (p.scanline < 240 \/ p.scanline = 261) /\ rendering_enabled(p)
      phase == (p.cycle - 1) % 8
      table == IF HasBit(p.ctrl, CTRL_BG_TABLE) THEN 4096 ELSE 0
      fine_y == (p.v \div 4096) % 8
      nametable == 8192 + (p.v % 4096)
      attribute == 9152 + (1024 * ((p.v \div 1024) % 4))
                     + (8 * ((p.v \div 128) % 8)) + ((p.v \div 4) % 8)
      fetch == IF ~ppu_fetch_dot(p) THEN <<>>
               ELSE IF phase = 0 THEN <<nametable>>
               ELSE IF phase = 2 THEN <<attribute>>
               ELSE IF phase = 4 THEN <<table + (VramByte * 16) + fine_y>>
               ELSE IF phase = 6 THEN <<table + (VramByte * 16) + fine_y + 8>>
               ELSE <<>>
      prefetch == IF render /\ (p.cycle = 338 \/ p.cycle = 340) THEN <<nametable>> ELSE <<>>
      synthetic == IF /\ p.scanline < 240 /\ rendering_enabled(p) /\ p.cycle = 260
                      /\ suppress_a12_on_sprite_eval_reads(m)
                      /\ HasBit(p.ctrl, CTRL_SPRITE_TABLE) /\ ~HasBit(p.ctrl, CTRL_BG_TABLE)
                     THEN <<0, 4096>> ELSE <<>>
  IN fetch \o prefetch \o synthetic

ppu_tick_scroll(p) ==
  LET render == (p.scanline < 240 \/ p.scanline = 261) /\ rendering_enabled(p)
      coarse(v) == IF ppu_fetch_dot(p) /\ (p.cycle - 1) % 8 = 7
                     THEN increment_coarse_x(v) ELSE v
      fine(v) == IF p.cycle = 256 THEN increment_y(v) ELSE v
      horizontal(v) == IF p.cycle = 257 THEN copy_horizontal_bits(v, p.t) ELSE v
      vertical(v) == IF p.scanline = 261 /\ p.cycle >= 280 /\ p.cycle <= 304
                       THEN copy_vertical_bits(v, p.t) ELSE v
  IN IF render THEN [p EXCEPT !.v = vertical(horizontal(fine(coarse(p.v))))] ELSE p

(***************************************************************************)
(* MMC5 (mapper 5): the scanline detector and its IRQ.  Of Mapper5 only    *)
(* the fields the detector reads or writes are kept; PRG/CHR banking,      *)
(* ExRAM and the multiplier do not touch them.                             *)
(***************************************************************************)
Mapper5_new ==
  [ kind |-> "mmc5", irq_scanline_compare |-> 0, irq_enabled |-> FALSE,
    irq_pending |-> FALSE, in_frame |-> FALSE, scanline_counter |-> 0,
    last_nametable_probe |-> 0, repeated_nametable_reads |-> 0,
    scanline_detect_armed |-> FALSE, cpu_cycles_since_ppu_read |-> 3 ]

\* Mapper5::clock_scanline_detector
clock_scanline_detector(m) ==
  IF ~m.in_frame
    THEN [m EXCEPT !.in_frame = TRUE, !.scanline_counter = 0]
    ELSE LET counter == (m.scanline_counter + 1) % 256 IN
         [m EXCEPT !.scanline_counter = counter,
                   !.irq_pending = IF m.irq_scanline_compare # 0
                                      /\ counter = m.irq_scanline_compare
                                     THEN TRUE ELSE @]

\* Mapper5::tick_cpu_cycle: three CPU cycles without a PPU read end the frame.
mapper5_tick_cpu_cycle(m) ==
  LET since == IF m.cpu_cycles_since_ppu_read + 1 < 3
                 THEN m.cpu_cycles_since_ppu_read + 1 ELSE 3 IN
  IF since >= 3
    THEN [m EXCEPT !.cpu_cycles_since_ppu_read = since,
                   !.in_frame = FALSE, !.scanline_counter = 0,
                   !.irq_pending = FALSE, !.scanline_detect_armed = FALSE,
                   !.repeated_nametable_reads = 0]
    ELSE [m EXCEPT !.cpu_cycles_since_ppu_read = since]

\* Mapper5::notify_ppu_read_addr
mapper5_notify_ppu_read_addr(m, addr) ==
  LET m1 == [m EXCEPT !.cpu_cycles_since_ppu_read = 0]
      m2 == IF m1.scanline_detect_armed
              THEN [clock_scanline_detector(m1) EXCEPT !.scanline_detect_armed = FALSE]
              ELSE m1
      probe == 8192 + ((addr - 8192) % 4096)
      repeated == IF probe = m2.last_nametable_probe
                    THEN (IF m2.repeated_nametable_reads < 255
                            THEN m2.repeated_nametable_reads + 1 ELSE 255)
                    ELSE 1
  IN IF addr >= 8192 /\ addr <= 16127 /\ probe < 12288
       THEN [m2 EXCEPT !.last_nametable_probe = probe,
                       !.repeated_nametable_reads = IF repeated >= 3 THEN 0 ELSE repeated,
                       !.scanline_detect_armed = IF repeated >= 3 THEN TRUE ELSE @]
       ELSE [m2 EXCEPT !.repeated_nametable_reads = 0]

\* Mapper5::cpu_read of $5204: the status byte, and the pending flag cleared.
mapper5_cpu_read(m, addr) ==
  IF addr = 20996
    THEN [mapper |-> [m EXCEPT !.irq_pending = FALSE],
          value |-> (IF m.irq_pending THEN 128 ELSE 0) + (IF m.in_frame THEN 64 ELSE 0)]
    ELSE [mapper |-> m, value |-> 0]

\* Mapper5::cpu_write of $5203 (compare value) and $5204 (IRQ enable).
mapper5_cpu_write(m, addr, value) ==
  IF addr = 20995 THEN [m EXCEPT !.irq_scanline_compare = value]
  ELSE IF addr = 20996 THEN [m EXCEPT !.irq_enabled = HasBit(value, 128)]
  ELSE m

\* The mapper after the notifications of one dot, in order.
RECURSIVE mapper_notify_ppu_reads(_, _)
mapper_notify_ppu_reads(m, reads) ==
  IF reads = <<>> THEN m
  ELSE mapper_notify_ppu_reads(
         IF m.kind = "mmc3" THEN mapper4_notify_ppu_read_addr(m, Head(reads))
         ELSE IF m.kind = "mmc5" THEN mapper5_notify_ppu_read_addr(m, Head(reads))
         ELSE m,
         Tail(reads))

(***************************************************************************)
(* SpecPpuMmc3: a PPU and an MMC3 at power-on, as the repository's test    *)
(* run_mmc3_irq_approximation_cycle sets them up: the host writes $2000    *)
(* (any choice of the two pattern-table bits) and $2001 (rendering on or   *)
(* off) and then ticks the PPU PpuMaxTicks dots.  calls is history: the    *)
(* dots ticked, whether each register was written, the synthetic A12       *)
(* pulses issued (synth) and the dots 260 of visible lines passed with     *)
(* rendering on and the two pattern tables different (due).                *)
(***************************************************************************)
PpuMaxTicks == 700

PpuCtrls == {0, CTRL_SPRITE_TABLE, CTRL_BG_TABLE, CTRL_SPRITE_TABLE + CTRL_BG_TABLE}

PpuMasks == {0, MASK_SHOW_BG + MASK_SHOW_SPRITES}

InitPpuMmc3 ==
  /\ nes = [Nes_new EXCEPT !.ppu = Ppu_scroll_new, !.mapper = Mapper4_new, !.mapper_id = 4]
  /\ rf = "idle"
  /\ guard = 0
  /\ last = Last("new")
  /\ calls = [ticks |-> 0, ctrl |-> FALSE, mask |-> FALSE, synth |-> 0, due |-> 0]

PpuWriteCtrl ==
  /\ calls.ticks = 0 /\ ~calls.ctrl /\ ~calls.mask
  /\ \E value \in PpuCtrls :
       nes' = [nes EXCEPT !.ppu = ppu_cpu_write_register(@, 8192, value)]
  /\ last' = Last("cpu_write_register")
  /\ calls' = [calls EXCEPT !.ctrl = TRUE]
  /\ UNCHANGED <<rf, guard>>

PpuWriteMask ==
  /\ calls.ticks = 0 /\ calls.ctrl /\ ~calls.mask
  /\ \E value \in PpuMasks :
       nes' = [nes EXCEPT !.ppu = ppu_cpu_write_register(@, 8193, value)]
  /\ last' = Last("cpu_write_register")
  /\ calls' = [calls EXCEPT !.mask = TRUE]
  /\ UNCHANGED <<rf, guard>>

PpuTick ==
  /\ calls.mask /\ calls.ticks < PpuMaxTicks
  /\ LET reads == ppu_tick_reads(nes.ppu, nes.mapper)
         dot260 == nes.ppu.scanline < 240 /\ nes.ppu.cycle = 260 /\ rendering_enabled(nes.ppu)
     IN /\ nes' = [nes EXCEPT !.ppu = ppu_tick(ppu_tick_scroll(@)),
                              !.mapper = mapper_notify_ppu_reads(@, reads)]
        /\ calls' = [calls EXCEPT
                       !.ticks = @ + 1,
                       !.synth = IF dot260 /\ Len(reads) = 2 THEN @ + 1 ELSE @,
                       !.due = IF dot260 /\ HasBit(nes.ppu.ctrl, CTRL_SPRITE_TABLE)
                                            # HasBit(nes.ppu.ctrl, CTRL_BG_TABLE)
                                 THEN @ + 1 ELSE @]
  /\ last' = Last("tick")
  /\ UNCHANGED <<rf, guard>>

NextPpuMmc3 ==
  \/ PpuWriteCtrl
  \/ PpuWriteMask
  \/ PpuTick

SpecPpuMmc3 == InitPpuMmc3 /\ [][NextPpuMmc3]_vars

(***************************************************************************)
(* C13: with rendering enabled and the two pattern tables different, the   *)
(* PPU has clocked the MMC3 IRQ counter at least once when 700 dots have   *)
(* been ticked from power-on, for either polarity; and at every dot 260 of *)
(* a visible line with rendering on and the tables different the synthetic *)
(* A12 pulse was issued.                                                   *)
(***************************************************************************)
C13_BothPolarities ==
  /\ (/\ calls.ticks = 700
      /\ rendering_enabled(nes.ppu)
      /\ HasBit(nes.ppu.ctrl, CTRL_SPRITE_TABLE) # HasBit(nes.ppu.ctrl, CTRL_BG_TABLE))
       => nes.mapper.debug_irq_clocks > 0
  /\ calls.synth = calls.due


(***************************************************************************)
(* SpecPpuMmc5: a PPU driving an MMC5, both at power-on.  The host writes  *)
(* $5203 (compare value), $5204 (IRQ enable) and $2001 (rendering on or    *)
(* off) and then runs CPU cycles: each is three PPU dots, whose reads the  *)
(* mapper is notified of, followed by the mapper's tick_cpu_cycle          *)
(* (tick_ppu_for_cpu_cycle).  The host may read $5204 between CPU cycles.  *)
(* OAM and the nametables keep their power-on contents (all zero), so      *)
(* eight sprites are in range on scanlines 1 to 8.  calls is history: the  *)
(* CPU cycles run, the registers written and the reads of $5204.           *)
(***************************************************************************)
CTRL_SPRITE_SIZE_16 == 32

OamByte == 0

\* Ppu::evaluate_sprites at dot 0 of a visible line: the pattern reads of
\* the first eight sprites in range, which sprite_eval_pattern_read
\* passes through ppu_read unless the mapper suppresses them.
ppu_sprite_reads(p, m) ==
  LET sprite_height == IF HasBit(p.ctrl, CTRL_SPRITE_SIZE_16) THEN 16 ELSE 8
      row == p.scanline - (OamByte + 1)
      table == IF sprite_height = 16 THEN (OamByte % 2) * 4096
               ELSE IF HasBit(p.ctrl, CTRL_SPRITE_TABLE) THEN 4096 ELSE 0
      tile == IF sprite_height = 16 THEN (OamByte - (OamByte % 2)) + (row \div 8)
              ELSE OamByte
      addr == table + (tile * 16) + (row % 8)
  IN IF /\ p.scanline < 240 /\ p.cycle = 0
        /\ row >= 0 /\ row < sprite_height
        /\ ~suppress_a12_on_sprite_eval_reads(m)
       THEN [i \in 1..16 |-> IF i % 2 = 1 THEN addr ELSE addr + 8]
       ELSE <<>>

\* One iteration of the loop of tick_ppu_for_cpu_cycle: Ppu::tick with the
\* mapper on the PPU bus.
ppu_tick_with_mapper(n) ==
  [n EXCEPT !.ppu = ppu_tick(ppu_tick_scroll(@)),
            !.mapper = mapper_notify_ppu_reads(
                         @, ppu_sprite_reads(n.ppu, n.mapper) \o ppu_tick_reads(n.ppu, n.mapper))]

Mmc5MaxCycles == 600

Mmc5MaxCompare == 2

InitPpuMmc5 ==
  /\ nes = [Nes_new EXCEPT !.ppu = Ppu_scroll_new, !.mapper = Mapper5_new, !.mapper_id = 5]
  /\ rf = "idle"
  /\ guard = 0
  /\ last = Last("new")
  /\ calls = [cycles |-> 0, compare |-> FALSE, enable |-> FALSE, mask |-> FALSE, reads |-> 0]

Mmc5WriteCompare ==
  /\ calls.cycles = 0 /\ ~calls.compare
  /\ \E value \in 0..Mmc5MaxCompare :
       nes' = [nes EXCEPT !.mapper = mapper5_cpu_write(@, 20995, value)]
  /\ last' = Last("cpu_write")
  /\ calls' = [calls EXCEPT !.compare = TRUE]
  /\ UNCHANGED <<rf, guard>>

Mmc5WriteEnable ==
  /\ calls.cycles = 0 /\ calls.compare /\ ~calls.enable
  /\ \E value \in {0, 128} :
       nes' = [nes EXCEPT !.mapper = mapper5_cpu_write(@, 20996, value)]
  /\ last' = Last("cpu_write")
  /\ calls' = [calls EXCEPT !.enable = TRUE]
  /\ UNCHANGED <<rf, guard>>

Mmc5WriteMask ==
  /\ calls.cycles = 0 /\ calls.enable /\ ~calls.mask
  /\ \E value \in PpuMasks :
       nes' = [nes EXCEPT !.ppu = ppu_cpu_write_register(@, 8193, value)]
  /\ last' = Last("cpu_write_register")
  /\ calls' = [calls EXCEPT !.mask = TRUE]
  /\ UNCHANGED <<rf, guard>>

Mmc5ReadStatus ==
  /\ calls.mask /\ calls.reads = 0
  /\ nes' = [nes EXCEPT !.mapper = mapper5_cpu_read(@, 20996).mapper]
  /\ last' = Last("cpu_read")
  /\ calls' = [calls EXCEPT !.reads = @ + 1]
  /\ UNCHANGED <<rf, guard>>

Mmc5CpuCycle ==
  /\ calls.mask /\ calls.cycles < Mmc5MaxCycles
  /\ nes' = [ppu_tick_with_mapper(ppu_tick_with_mapper(ppu_tick_with_mapper(nes)))
               EXCEPT !.mapper = mapper5_tick_cpu_cycle(@)]
  /\ last' = Last("tick_ppu_for_cpu_cycle")
  /\ calls' = [calls EXCEPT !.cycles = @ + 1]
  /\ UNCHANGED <<rf, guard>>

NextPpuMmc5 ==
  \/ Mmc5WriteCompare
  \/ Mmc5WriteEnable
  \/ Mmc5WriteMask
  \/ Mmc5ReadStatus
  \/ Mmc5CpuCycle

SpecPpuMmc5 == InitPpuMmc5 /\ [][NextPpuMmc5]_vars

(***************************************************************************)
(* C14: on an MMC5 driven by the PPU with rendering enabled, the first     *)
(* clock of the scanline detector enters in-frame with the scanline        *)
(* counter at 0 and a later clock increments the counter by one; the IRQ   *)
(* pending flag is set when the counter comes to equal a non-zero compare  *)
(* value and stays set until $5204 is read; and the CPU-cycle idle timeout *)
(* does not reset the detector between the scanlines of a rendered frame:  *)
(* while the PPU stays on the visible lines with rendering on, in-frame is *)
(* not left and the counter does not go back.                              *)
(***************************************************************************)
C14_Mmc5ScanlineDetector ==
  [][LET m == nes.mapper
         m1 == nes'.mapper
     IN /\ (~m.in_frame /\ m1.in_frame) => m1.scanline_counter = 0
        /\ (m.in_frame /\ m1.in_frame)
             => m1.scanline_counter \in {m.scanline_counter, m.scanline_counter + 1}
        /\ (/\ m1.in_frame /\ m1.scanline_counter # m.scanline_counter
            /\ m1.irq_scanline_compare # 0
            /\ m1.scanline_counter = m1.irq_scanline_compare) => m1.irq_pending
        /\ (m.irq_pending /\ ~m1.irq_pending) => calls'.reads # calls.reads
        /\ (/\ last'.kind = "tick_ppu_for_cpu_cycle"
            /\ rendering_enabled(nes.ppu)
            /\ nes.ppu.scanline < 240 /\ nes'.ppu.scanline < 240
            /\ m.in_frame) => m1.in_frame
    ]_vars

(***************************************************************************)
(* MMC1 (mapper 1): the serial shift register and its four target          *)
(* registers.  PRG ROM, PRG RAM and CHR contents are not kept: no write    *)
(* to 0x8000-0xFFFF reads or changes them.                                 *)
(***************************************************************************)
Mapper1_new ==
  [ kind |-> "mmc1", shift_register |-> 16, control |-> 12,
    chr_bank0 |-> 0, chr_bank1 |-> 0, prg_bank |-> 0 ]

\* A write_shift_register whose reset leaves the control register alone.
write_shift_register_plain_reset(m, addr, value) ==
  IF HasBit(value, 128)
    THEN [m EXCEPT !.shift_register = 16]
    ELSE LET commit == m.shift_register % 2 = 1
             data == (m.shift_register \div 2) + ((value % 2) * 16)
         IN IF ~commit THEN [m EXCEPT !.shift_register = data]
            ELSE IF addr >= 32768 /\ addr <= 40959
              THEN [m EXCEPT !.shift_register = 16, !.control = data]
            ELSE IF addr >= 40960 /\ addr <= 49151
              THEN [m EXCEPT !.shift_register = 16, !.chr_bank0 = data]
            ELSE IF addr >= 49152 /\ addr <= 57343
              THEN [m EXCEPT !.shift_register = 16, !.chr_bank1 = data]
            ELSE IF addr >= 57344 /\ addr <= 65535
              THEN [m EXCEPT !.shift_register = 16, !.prg_bank = data % 16]
            ELSE [m EXCEPT !.shift_register = 16]

\* Mapper1::write_shift_register
write_shift_register(m, addr, value) ==
  IF HasBit(value, 128)
    THEN [m EXCEPT !.shift_register = 16, !.control = SetMask(@, 12)]
    ELSE LET commit == m.shift_register % 2 = 1
             data == (m.shift_register \div 2) + ((value % 2) * 16)
         IN IF ~commit THEN [m EXCEPT !.shift_register = data]
            ELSE IF addr >= 32768 /\ addr <= 40959
              THEN [m EXCEPT !.shift_register = 16, !.control = data]
            ELSE IF addr >= 40960 /\ addr <= 49151
              THEN [m EXCEPT !.shift_register = 16, !.chr_bank0 = data]
            ELSE IF addr >= 49152 /\ addr <= 57343
              THEN [m EXCEPT !.shift_register = 16, !.chr_bank1 = data]
            ELSE IF addr >= 57344 /\ addr <= 65535
              THEN [m EXCEPT !.shift_register = 16, !.prg_bank = data % 16]
            ELSE [m EXCEPT !.shift_register = 16]

\* Mapper1::cpu_write: PRG RAM at 0x6000-0x7FFF, the shift register above.
mapper1_cpu_write(m, addr, value) ==
  IF addr >= 32768 /\ addr <= 65535 THEN write_shift_register(m, addr, value) ELSE m

(***************************************************************************)
(* SpecMmc1: a fresh Mapper1 and a host that writes to it, at most         *)
(* Mmc1MaxWrites times.  calls is history: the number of writes, the       *)
(* address and value of the last one, and the bits (bit 0 of each value)   *)
(* written to 0x8000-0xFFFF since the last reset or commit.                *)
(***************************************************************************)
Mmc1MaxWrites == 10

Mmc1Addrs == {24576, 32768, 40960, 49152, 57344}

Mmc1Values == {0, 1, 2, 128, 129}

InitMmc1 ==
  /\ nes = [Nes_new EXCEPT !.mapper = Mapper1_new, !.mapper_id = 1]
  /\ rf = "idle"
  /\ guard = 0
  /\ last = Last("new")
  /\ calls = [writes |-> 0, addr |-> 0, value |-> 0, bits |-> <<>>]

Mmc1CpuWrite ==
  /\ calls.writes < Mmc1MaxWrites
  /\ \E addr \in Mmc1Addrs, value \in Mmc1Values :
       /\ nes' = [nes EXCEPT !.mapper = mapper1_cpu_write(@, addr, value)]
       /\ calls' = [writes |-> calls.writes + 1, addr |-> addr, value |-> value,
                    bits |-> IF addr < 32768 THEN calls.bits
                             ELSE IF HasBit(value, 128) \/ Len(calls.bits) = 4 THEN <<>>
                             ELSE Append(calls.bits, value % 2)]
  /\ last' = Last("cpu_write")
  /\ UNCHANGED <<rf, guard>>

NextMmc1 == Mmc1CpuWrite

SpecMmc1 == InitMmc1 /\ [][NextMmc1]_vars

\* What one write to 0x8000-0xFFFF does to the four target registers and
\* the shift register, when the PRG register keeps the collected five-bit
\* value modulo prg_values (16: four bits, 32: all five).
Mmc1WriteContract(prg_values) ==
  LET m == nes.mapper
      m1 == nes'.mapper
      addr == calls'.addr
      value == calls'.value
      bits == calls.bits
      data == bits[1] + (2 * bits[2]) + (4 * bits[3]) + (8 * bits[4]) + (16 * (value % 2))
      targets(r) == <<r.control, r.chr_bank0, r.chr_bank1, r.prg_bank>>
  IN addr >= 32768 =>
       IF HasBit(value, 128)
         THEN /\ m1.shift_register = 16
              /\ targets(m1) = <<SetMask(m.control, 12), m.chr_bank0, m.chr_bank1, m.prg_bank>>
       ELSE IF Len(bits) < 4
         THEN /\ targets(m1) = targets(m)
              /\ m1.shift_register # 16
       ELSE /\ m1.shift_register = 16
            /\ targets(m1) =
                 IF addr <= 40959 THEN <<data, m.chr_bank0, m.chr_bank1, m.prg_bank>>
                 ELSE IF addr <= 49151 THEN <<m.control, data, m.chr_bank1, m.prg_bank>>
                 ELSE IF addr <= 57343 THEN <<m.control, m.chr_bank0, data, m.prg_bank>>
                 ELSE <<m.control, m.chr_bank0, m.chr_bank1, data % prg_values>>

Ppu_oam_new == Ppu_new @@ [oam_addr |-> 0, oam |-> [i \in 0..255 |-> 0]]

\* Ppu::cpu_write_register, 0x2003
ppu_write_oam_addr(p, value) == [p EXCEPT !.oam_addr = value]

\* Ppu::cpu_write_register, 0x2004
ppu_write_oam_data(p, value) ==
  [p EXCEPT !.oam[p.oam_addr] = value, !.oam_addr = Wrap8(@ + 1)]

\* Ppu::cpu_read_register, 0x2004: OAM_ADDR is not advanced.
ppu_read_oam_data(p) == p.oam[p.oam_addr]

\* A write_oam_dma that starts at OAM[0] whatever OAM_ADDR is.
write_oam_dma_from_zero(p, bytes) ==
  [p EXCEPT !.oam = [i \in 0..255 |-> IF i < Len(bytes) THEN bytes[i + 1] ELSE @[i]]]

\* Ppu::write_oam_dma: byte after byte through OAM_ADDR.  The loop is
\* unrolled by halves, the first half being evaluated (its OAM_ADDR is a
\* byte) before the second starts from it.
RECURSIVE write_oam_dma(_, _)
write_oam_dma(p, bytes) ==
  LET half == Len(bytes) \div 2
      first == write_oam_dma(p, SubSeq(bytes, 1, half))
  IN IF bytes = <<>> THEN p
     ELSE IF Len(bytes) = 1 THEN ppu_write_oam_data(p, bytes[1])
     ELSE IF first.oam_addr \in 0..255
       THEN write_oam_dma(first, SubSeq(bytes, half + 1, Len(bytes)))
       ELSE p

\* The 256 bytes do_oam_dma reads from a page, in order.
oam_dma_bytes(n, page) ==
  [i \in 1..256 |-> cpu_read([n EXCEPT !.cpu_step_in_progress = FALSE],
                             Wrap16((page * 256) + (i - 1)), 0).v]

(***************************************************************************)
(* SpecOamDma: a machine whose RAM holds one of a few patterns, and a host *)
(* that writes $2003, $2004 and $4014 (with a page of RAM or of its        *)
(* mirrors), OamMaxOps times in all.  calls is history: the operations     *)
(* done, the DMAs among them, and the page and OAM_ADDR of the last DMA.   *)
(***************************************************************************)
OamMaxOps == 3

OamPages == {0, 2, 7, 10, 31}

OamValues == {0, 1, 128, 255}

\* RAM patterns: byte (k * a + c + page) mod 256 at address a of pages 0,
\* 2 and 7, zero elsewhere.
OamRam(k, c) ==
  LET byte(a) == IF (a \div 256) \in {0, 2, 7} THEN ((k * a) + c + (a \div 256)) % 256 ELSE 0
  IN [a \in {b \in 0..2047 : byte(b) # 0} |-> byte(a)]

InitOamDma ==
  /\ \E k \in {1, 3}, c \in {0, 9} :
       nes = [Nes_new EXCEPT !.ppu = Ppu_oam_new, !.mapper = Mapper1_new, !.mapper_id = 1,
                             !.ram = OamRam(k, c)]
  /\ rf = "idle"
  /\ guard = 0
  /\ last = Last("new")
  /\ calls = [ops |-> 0, dmas |-> 0, page |-> 0, a |-> 0]

OamWriteAddr ==
  /\ calls.ops < OamMaxOps
  /\ \E value \in OamValues : nes' = [nes EXCEPT !.ppu = ppu_write_oam_addr(@, value)]
  /\ last' = Last("cpu_write_register")
  /\ calls' = [calls EXCEPT !.ops = @ + 1]
  /\ UNCHANGED <<rf, guard>>

OamWriteData ==
  /\ calls.ops < OamMaxOps
  /\ \E value \in OamValues : nes' = [nes EXCEPT !.ppu = ppu_write_oam_data(@, value)]
  /\ last' = Last("cpu_write_register")
  /\ calls' = [calls EXCEPT !.ops = @ + 1]
  /\ UNCHANGED <<rf, guard>>

OamDma ==
  /\ calls.ops < OamMaxOps
  /\ \E page \in OamPages :
       /\ nes' = [do_oam_dma(nes, page) EXCEPT
                    !.ppu = write_oam_dma(@, oam_dma_bytes(nes, page))]
       /\ calls' = [ops |-> calls.ops + 1, dmas |-> calls.dmas + 1,
                    page |-> page, a |-> nes.ppu.oam_addr]
  /\ last' = Last("do_oam_dma")
  /\ UNCHANGED <<rf, guard>>

NextOamDma ==
  \/ OamWriteAddr
  \/ OamWriteData
  \/ OamDma

SpecOamDma == InitOamDma /\ [][NextOamDma]_vars

(***************************************************************************)
(* C16: an OAM DMA from a page copies the page's 256 bytes so that         *)
(* OAM[(a + i) mod 256] is source byte i, a being OAM_ADDR at the $4014    *)
(* write, and leaves OAM_ADDR at a; reading OAM back through $2004 from    *)
(* OAM_ADDR on, in order, yields the source bytes in order.                *)
(***************************************************************************)
C16_OamDmaCopy ==
  [][calls'.dmas # calls.dmas =>
       LET a == nes.ppu.oam_addr
           source(i) == ram_read(nes.ram, ((calls'.page * 256) + i) % 2048)
           back(i) == ppu_read_oam_data(ppu_write_oam_addr(nes'.ppu, (nes'.ppu.oam_addr + i) % 256))
       IN /\ \A i \in 0..255 : nes'.ppu.oam[(a + i) % 256] = source(i)
          /\ nes'.ppu.oam_addr = a
          /\ \A i \in 0..255 : back(i) = source(i)
    ]_vars

\* A DMA from page 2 was made with OAM_ADDR at 128, and the bytes it left
\* at OAM[128] and OAM[129] differ.
C16_Witness ==
  /\ last.kind = "do_oam_dma" /\ calls.page = 2 /\ calls.a = 128
  /\ nes.ppu.oam_addr = 128
  /\ nes.ppu.oam[128] # nes.ppu.oam[129]

(***************************************************************************)
(* SpecDma: the host loads a cartridge and runs a frame whose program      *)
(* idles up to cycle DmaFrom, is any sequence over DmaMenu up to cycle     *)
(* DmaTo and idles again, followed up to cycle DmaMax: long enough for the *)
(* stall of two OAM DMAs to run out.  The window lies just before the      *)
(* first VBL, so that an NMI enabled in it is raised during the stall,     *)
(* which goes on in the host's next run_frame call.                        *)
(* The menu leaves the DMC off: OAM DMA is the only source of stall.       *)
(***************************************************************************)
DmaFrom == 27489

DmaTo == 27497

DmaMax == 28540

DmaMenu ==
  { Imm(169, 128), Abs(141, 8192), Abs(141, 16404), Abs(238, 16404), Abs(76, 32768) }

CfgDma == [menu |-> DmaMenu, from |-> DmaFrom, to |-> DmaTo, max |-> DmaMax,
           paths |-> {[name |-> GameNes, file |-> "cart", cart |-> CartFme7]},
           frames |-> FrameCalls]

NextDma ==
  \/ LoadRom(CfgDma)
  \/ Reset
  \/ RunFrameReturn
  \/ RunFrameEnter(CfgDma)
  \/ RunFrameStep(CfgDma)

SpecDma == Init /\ [][NextDma]_vars

(***************************************************************************)
(* C17: an instruction that writes $4014 once (STA, 4 cycles, the write    *)
(* being its 4th) leaves a stall of 513 cycles when total_cycles plus the  *)
(* 4 cycles ticked is even and 514 when it is odd, and one that writes it  *)
(* twice (INC, 6 cycles, writes in its 5th and 6th) the sum of both; each  *)
(* step_cpu call of the stall takes one cycle off it, fetches no opcode    *)
(* and services no interrupt while the PPU is ticked 3 dots and the APU    *)
(* and the mapper once; no opcode is fetched and no interrupt serviced     *)
(* before the stall has run out.                                           *)
(***************************************************************************)
C17_OamDmaStall ==
  [][last'.kind \in {"exec", "nmi", "irq", "stall"} =>
       LET cycles == nes'.total_cycles - nes.total_cycles
           phase(k) == (nes.total_cycles + k) % 2
           untouched == /\ nes'.hist.opcode_fetches = nes.hist.opcode_fetches
                        /\ nes'.nmi_serviced_count = nes.nmi_serviced_count
                        /\ nes'.debug.irq_serviced_count = nes.debug.irq_serviced_count
                        /\ nes'.pc = nes.pc
           ticked == /\ nes'.debug.ppu_cycles = nes.debug.ppu_cycles + 3
                     /\ nes'.debug.apu_ticks = nes.debug.apu_ticks + 1
                     /\ nes'.hist.mapper_ticks = nes.hist.mapper_ticks + 1
       IN /\ (last'.kind = "stall") = (nes.dma_cycles > 0)
          /\ last'.kind = "stall"
               => /\ cycles = 1 /\ nes'.dma_cycles = nes.dma_cycles - 1
                  /\ untouched /\ ticked
          /\ (last'.kind = "exec" /\ nes'.dma_cycles > 0)
               => \/ cycles = 4 /\ nes'.dma_cycles = 513 + phase(4)
                  \/ cycles = 6 /\ nes'.dma_cycles = (513 + phase(5)) + (513 + phase(6))
    ]_vars

\* The stall of an OAM DMA has just run out, in the second run_frame call,
\* with an NMI waiting to be serviced.
C17_Witness ==
  /\ last.kind = "stall" /\ nes.dma_cycles = 0 /\ nes.pending_nmi
  /\ calls.frames = 2

(***************************************************************************)
(* SpecDmc: the host loads a cartridge and runs a frame whose program is   *)
(* any sequence over DmcMenu from cycle DmcFrom to cycle DmcTo and idles   *)
(* after it, followed up to cycle DmcMax.  With A = 0x5F the menu can set  *)
(* the DMC to loop a one-byte sample at the fastest rate ($4010), start it *)
(* ($4015) and start an OAM DMA ($4014) whose stall the DMC's fetches fall *)
(* into.                                                                   *)
(***************************************************************************)
DmcFrom == 0

DmcTo == 16

DmcMax == 560

DmcMenu ==
  { Imm(169, 95), Abs(141, 16400), Abs(141, 16405), Abs(141, 16404), Abs(76, 32768) }

CfgDmc == [menu |-> DmcMenu, from |-> DmcFrom, to |-> DmcTo, max |-> DmcMax,
           paths |-> {[name |-> GameNes, file |-> "cart", cart |-> CartFme7]},
           frames |-> 1]

NextDmc ==
  \/ LoadRom(CfgDmc)
  \/ Reset
  \/ RunFrameReturn
  \/ RunFrameEnter(CfgDmc)
  \/ RunFrameStep(CfgDmc)

SpecDmc == Init /\ [][NextDmc]_vars

(***************************************************************************)
(* C18: no DMC DMA request is outstanding when a step of run_frame's loop  *)
(* ends (its last CPU-cycle tick has ended).  A step_cpu call of a stall   *)
(* is one CPU-cycle tick: if the DMC got its byte in it (its sample buffer *)
(* was empty before and is full after) the stall grew by 4 cycles on an    *)
(* even CPU phase and by 3 on an odd one, and otherwise not at all.  Any   *)
(* other step adds, beyond the stall of an OAM DMA it starts, 0, 3 or 4    *)
(* cycles, and if it adds any the DMC holds a byte.                        *)
(***************************************************************************)
C18_DmcDmaServiced ==
  [][last'.kind \in {"exec", "nmi", "irq", "stall"} =>
       LET phase(k) == (nes.total_cycles + k) % 2
           fetched == ~nes.apu.dmc.has_sample /\ nes'.apu.dmc.has_sample
           cycles == nes'.total_cycles - nes.total_cycles
           oam == IF last'.kind = "exec" /\ nes'.dma_cycles >= 513 THEN 513 + phase(4) ELSE 0
           added == nes'.dma_cycles - oam
       IN /\ ~nes'.apu.dmc_dma_request
          /\ last'.kind = "stall"
               => nes'.dma_cycles = (nes.dma_cycles - 1)
                                      + (IF fetched THEN (IF phase(1) = 0 THEN 4 ELSE 3) ELSE 0)
          /\ last'.kind # "stall"
               => /\ added \in {0, 3, 4}
                  /\ added # 0 => nes'.apu.dmc.has_sample
                  /\ fetched => added # 0
    ]_vars

\* A stall step in which the DMC got a byte (its output unit emptied the
\* buffer one tick earlier), the OAM DMA's stall still running.
C18_Witness ==
  /\ last.kind = "stall" /\ nes.dma_cycles > 4
  /\ nes.apu.dmc.has_sample /\ nes.apu.dmc.bits_remaining = 8
  /\ nes.apu.dmc.timer_counter = nes.apu.dmc.timer_period - 1

(***************************************************************************)
(* Controller port 1: the host's button byte, the shift register and the   *)
(* strobe (mod.rs).  Bit 0 of the button byte is A, then B, Select, Start, *)
(* Up, Down, Left, Right.  Port 2 and the Zapper are not kept.             *)
(***************************************************************************)
Nes_controller_new ==
  Nes_new @@ [controller_state |-> 0, controller_shift |-> 0, controller_strobe |-> FALSE]

\* Nes::set_controller_state
set_controller_state(n, state) ==
  [n EXCEPT !.controller_state = state,
            !.controller_shift = IF n.controller_strobe THEN state ELSE @]

\* A read_controller_1 whose shift register fills with zeros.
read_controller_1_zero_fill(n) ==
  IF n.controller_strobe
    THEN [n |-> n, v |-> 64 + (n.controller_state % 2)]
    ELSE [n |-> [n EXCEPT !.controller_shift = @ \div 2],
          v |-> 64 + (n.controller_shift % 2)]

\* Nes::read_controller_1: the machine after the read and the byte read.
read_controller_1(n) ==
  IF n.controller_strobe
    THEN [n |-> n, v |-> 64 + (n.controller_state % 2)]
    ELSE [n |-> [n EXCEPT !.controller_shift = (@ \div 2) + 128],
          v |-> 64 + (n.controller_shift % 2)]

\* Nes::write_controller_strobe
write_controller_strobe(n, value) ==
  [n EXCEPT !.controller_strobe = value % 2 = 1,
            !.controller_shift = IF value % 2 = 1 THEN n.controller_state ELSE @]

(***************************************************************************)
(* SpecController: a host that sets the button byte and a program that     *)
(* writes and reads $4016, in any order.  calls is history: whether the    *)
(* strobe has fallen from 1 to 0, the button byte at the last fall, the    *)
(* number of reads made since (counted up to CtlMaxReads, where reading    *)
(* stops until the next fall) and the byte the last read returned.         *)
(***************************************************************************)
CtlMaxReads == 10

CtlStates == {0, 45, 210}

CtlStrobes == {0, 1, 2}

InitController ==
  /\ nes = Nes_controller_new
  /\ rf = "idle"
  /\ guard = 0
  /\ last = Last("new")
  /\ calls = [fallen |-> FALSE, latched |-> 0, reads |-> 0, value |-> 0]

SetControllerState ==
  /\ \E state \in CtlStates : nes' = set_controller_state(nes, state)
  /\ last' = Last("set_controller_state")
  /\ UNCHANGED <<rf, guard, calls>>

WriteControllerStrobe ==
  /\ \E value \in CtlStrobes :
       /\ nes' = write_controller_strobe(nes, value)
       /\ calls' = IF nes.controller_strobe /\ value % 2 = 0
                     THEN [calls EXCEPT !.fallen = TRUE, !.latched = nes.controller_state,
                                        !.reads = 0]
                     ELSE calls
  /\ last' = Last("write_controller_strobe")
  /\ UNCHANGED <<rf, guard>>

ReadController1 ==
  /\ calls.reads < CtlMaxReads
  /\ LET r == read_controller_1(nes) IN
       /\ nes' = r.n
       /\ calls' = [calls EXCEPT !.value = r.v,
                                 !.reads = IF nes.controller_strobe THEN @ ELSE @ + 1]
  /\ last' = Last("read_controller_1")
  /\ UNCHANGED <<rf, guard>>

NextController ==
  \/ SetControllerState
  \/ WriteControllerStrobe
  \/ ReadController1

SpecController == InitController /\ [][NextController]_vars

(***************************************************************************)
(* C19: every $4016 read returns 0x40 plus one bit: while the strobe is 1, *)
(* the live A bit; after a fall of the strobe from 1 to 0, the bits of the *)
(* button byte as it was at the fall, bit 0 first, in the first eight      *)
(* reads and 1 in all later ones.  A set_controller_state call made while  *)
(* the strobe is 0 leaves the shift register alone.                        *)
(***************************************************************************)
C19_ControllerProtocol ==
  [][/\ last'.kind = "read_controller_1" =>
          LET bit == calls'.value - 64
              r == calls.reads
          IN /\ bit \in {0, 1}
             /\ nes.controller_strobe => bit = nes.controller_state % 2
             /\ (~nes.controller_strobe /\ calls.fallen)
                  => bit = IF r < 8 THEN (calls.latched \div (2 ^ r)) % 2 ELSE 1
     /\ (last'.kind = "set_controller_state" /\ ~nes.controller_strobe)
          => nes'.controller_shift = nes.controller_shift
    ]_vars

\* Ten reads after a fall of the strobe with the buttons at 0x2D, the host
\* having changed the buttons since; the last read returned 0x41.
C19_Witness ==
  /\ last.kind = "read_controller_1" /\ calls.fallen /\ calls.latched = 45
  /\ calls.reads = 10 /\ calls.value = 65 /\ nes.controller_state = 210
  /\ ~nes.controller_strobe


(***************************************************************************)
(* The PPU's address registers (ppu.rs): v and t under the CPU's register  *)
(* writes and reads and under Ppu::tick.  The VRAM and palette bytes that  *)
(* $2007 moves, and the read buffer, never reach v or t and are left out.  *)
(***************************************************************************)
\* Of Mapper71 only its answer to allow_relaxed_sprite0_hit reaches the PPU's
\* address registers.
Mapper71_new == [kind |-> "mapper71"]

\* The Mapper trait's default is false; only Mapper71 overrides it.
allow_relaxed_sprite0_hit(m) == m.kind = "mapper71"

\* v.wrapping_add on a u16.
increment_vram_addr(p) ==
  IF HasBit(p.ctrl, CTRL_VRAM_INC_32)
    THEN [p EXCEPT !.v = Wrap16(@ + 32)]
    ELSE [p EXCEPT !.v = Wrap16(@ + 1)]

increment_vram_addr_cpu_access(p) ==
  IF rendering_enabled(p) /\ (p.scanline \in 0..239 \/ p.scanline = 261)
    THEN [p EXCEPT !.v = increment_y(increment_coarse_x(@))]
    ELSE increment_vram_addr(p)

cpu_write_register_bit14_kept(p, addr, value, m) ==
  LET q == ppu_cpu_write_register(p, addr, value)
      nt == ((q.t \div 1024) % 4) * 1024
      coarse_x == q.t % 32
      coarse_y == ((q.t \div 32) % 32) * 32
      fine_y == ((q.t \div 4096) % 8) * 4096
      t_low == (q.t % 256) + (256 * (value % 128))
      t_high == ((((q.t \div 256) % 128) * 256)) + value
  IN IF addr = 8192
       THEN [q EXCEPT !.t = (@ - nt) + (1024 * (value % 4))]
     ELSE IF addr = 8197
       THEN IF ~q.write_toggle
              THEN [q EXCEPT !.fine_x = value % 8,
                             !.t = (@ - coarse_x) + ((value \div 8) % 32),
                             !.write_toggle = TRUE]
              ELSE [q EXCEPT !.t = (((@ - coarse_y) - fine_y)
                                      + (32 * ((value \div 8) % 32)))
                                   + (4096 * (value % 8)),
                             !.write_toggle = FALSE]
     ELSE IF addr = 8198
       THEN IF ~q.write_toggle
              THEN [q EXCEPT !.t = t_low, !.write_toggle = TRUE]
              ELSE IF allow_relaxed_sprite0_hit(m)
                THEN [q EXCEPT !.t = t_high, !.ppuaddr_reload_pending = TRUE,
                               !.ppuaddr_reload_delay = 1, !.write_toggle = FALSE]
                ELSE [q EXCEPT !.t = t_high, !.v = t_high,
                               !.ppuaddr_reload_pending = FALSE,
                               !.ppuaddr_reload_delay = 0, !.write_toggle = FALSE]
     ELSE IF addr = 8199 THEN increment_vram_addr_cpu_access(q)
     ELSE q

\* cpu_write_register with its arms for $2000, $2005, $2006 and $2007.
cpu_write_register(p, addr, value, m) ==
  LET q == ppu_cpu_write_register(p, addr, value)
      nt == ((q.t \div 1024) % 4) * 1024
      coarse_x == q.t % 32
      coarse_y == ((q.t \div 32) % 32) * 32
      fine_y == ((q.t \div 4096) % 8) * 4096
      t_low == (q.t % 256) + (256 * (value % 64))
      t_high == ((((q.t \div 256) % 128) * 256)) + value
  IN IF addr = 8192
       THEN [q EXCEPT !.t = (@ - nt) + (1024 * (value % 4))]
     ELSE IF addr = 8197
       THEN IF ~q.write_toggle
              THEN [q EXCEPT !.fine_x = value % 8,
                             !.t = (@ - coarse_x) + ((value \div 8) % 32),
                             !.write_toggle = TRUE]
              ELSE [q EXCEPT !.t = (((@ - coarse_y) - fine_y)
                                      + (32 * ((value \div 8) % 32)))
                                   + (4096 * (value % 8)),
                             !.write_toggle = FALSE]
     ELSE IF addr = 8198
       THEN IF ~q.write_toggle
              THEN [q EXCEPT !.t = t_low, !.write_toggle = TRUE]
              ELSE IF allow_relaxed_sprite0_hit(m)
                THEN [q EXCEPT !.t = t_high, !.ppuaddr_reload_pending = TRUE,
                               !.ppuaddr_reload_delay = 1, !.write_toggle = FALSE]
                ELSE [q EXCEPT !.t = t_high, !.v = t_high,
                               !.ppuaddr_reload_pending = FALSE,
                               !.ppuaddr_reload_delay = 0, !.write_toggle = FALSE]
     ELSE IF addr = 8199 THEN increment_vram_addr_cpu_access(q)
     ELSE q

\* cpu_read_register with its arm for $2007; the byte read is VramByte.
cpu_read_register(p, addr) ==
  IF addr = 8199
    THEN [increment_vram_addr_cpu_access(p) EXCEPT !.open_bus = VramByte]
    ELSE ppu_cpu_read_register(p, addr).ppu

(***************************************************************************)
(* SpecScroll: a PPU as Ppu::new leaves it, with an MMC1 cartridge, under  *)
(* up to ScrollMaxOps register accesses with addresses of ScrollRegs and   *)
(* values of ScrollValues, and up to ScrollMaxTicks dots of Ppu::tick.     *)
(***************************************************************************)
ScrollMaxOps == 6

ScrollMaxTicks == 9

ScrollRegs == {8192, 8193, 8194, 8197, 8198, 8199}

ScrollValues == {0, 8, 255}

InitScroll ==
  /\ nes = [Nes_new EXCEPT !.ppu = Ppu_scroll_new, !.mapper = Mapper1_new]
  /\ rf = "idle"
  /\ guard = 0
  /\ last = Last("new")
  /\ calls = [ops |-> 0, ticks |-> 0, addr |-> 0]

ScrollCpuWrite ==
  /\ calls.ops < ScrollMaxOps
  /\ \E addr \in ScrollRegs \ {8194}, value \in ScrollValues :
       /\ nes' = [nes EXCEPT !.ppu = cpu_write_register(@, addr, value, nes.mapper)]
       /\ calls' = [calls EXCEPT !.ops = @ + 1, !.addr = addr]
  /\ last' = Last("cpu_write_register")
  /\ UNCHANGED <<rf, guard>>

ScrollCpuRead ==
  /\ calls.ops < ScrollMaxOps
  /\ \E addr \in {8194, 8199} :
       /\ nes' = [nes EXCEPT !.ppu = cpu_read_register(@, addr)]
       /\ calls' = [calls EXCEPT !.ops = @ + 1, !.addr = addr]
  /\ last' = Last("cpu_read_register")
  /\ UNCHANGED <<rf, guard>>

ScrollTick ==
  /\ calls.ticks < ScrollMaxTicks
  /\ nes' = [nes EXCEPT !.ppu = ppu_tick(ppu_tick_scroll(@))]
  /\ calls' = [calls EXCEPT !.ticks = @ + 1]
  /\ last' = Last("tick")
  /\ UNCHANGED <<rf, guard>>

NextScroll ==
  \/ ScrollCpuWrite
  \/ ScrollCpuRead
  \/ ScrollTick

SpecScroll == InitScroll /\ [][NextScroll]_vars

(***************************************************************************)
(* C20: after any sequence of register writes and reads and of dots, both  *)
(* v and t are at most 0x7FFF.                                             *)
(***************************************************************************)
C20_VTWithin15Bits == nes.ppu.v <= 32767 /\ nes.ppu.t <= 32767


\* The head of Ppu::tick: a pending reload of v from t, set up by a second
\* $2006 write under a mapper with relaxed sprite-0 timing.
ppu_tick_reload(p) ==
  IF p.ppuaddr_reload_pending
    THEN LET delay == IF p.ppuaddr_reload_delay > 0
                        THEN p.ppuaddr_reload_delay - 1 ELSE 0
         IN IF delay = 0
              THEN [p EXCEPT !.ppuaddr_reload_delay = 0, !.v = p.t,
                             !.ppuaddr_reload_pending = FALSE]
              ELSE [p EXCEPT !.ppuaddr_reload_delay = delay]
    ELSE p

(***************************************************************************)
(* SpecLoopy: a PPU as Ppu::new leaves it, with an MMC1 or a Mapper71      *)
(* cartridge, under up to LoopyMaxWrites writes to $2005 and $2006 with    *)
(* values of LoopyValues[addr], reads of $2002 and up to LoopyMaxTicks dots.     *)
(* calls.writes is the list of the writes made, as <<addr, value>>.        *)
(***************************************************************************)
LoopyMaxWrites == 4

LoopyMaxTicks == 2

LoopyValues == [a \in {8197, 8198} |-> IF a = 8197 THEN {0, 7, 255} ELSE {0, 32, 255}]

InitLoopy ==
  /\ \E m \in {Mapper1_new, Mapper71_new} :
       nes = [Nes_new EXCEPT !.ppu = Ppu_scroll_new, !.mapper = m]
  /\ rf = "idle"
  /\ guard = 0
  /\ last = Last("new")
  /\ calls = [writes |-> <<>>, ticks |-> 0]

LoopyCpuWrite ==
  /\ Len(calls.writes) < LoopyMaxWrites
  /\ \E addr \in {8197, 8198} : \E value \in LoopyValues[addr] :
       /\ nes' = [nes EXCEPT !.ppu = cpu_write_register(@, addr, value, nes.mapper)]
       /\ calls' = [calls EXCEPT !.writes = Append(@, <<addr, value>>)]
  /\ last' = Last("cpu_write_register")
  /\ UNCHANGED <<rf, guard>>

LoopyReadStatus ==
  /\ nes' = [nes EXCEPT !.ppu = cpu_read_register(@, 8194)]
  /\ last' = Last("cpu_read_register")
  /\ UNCHANGED <<rf, guard, calls>>

LoopyTick ==
  /\ calls.ticks < LoopyMaxTicks
  /\ nes' = [nes EXCEPT !.ppu = ppu_tick(ppu_tick_scroll(ppu_tick_reload(@)))]
  /\ calls' = [calls EXCEPT !.ticks = @ + 1]
  /\ last' = Last("tick")
  /\ UNCHANGED <<rf, guard>>

NextLoopy ==
  \/ LoopyCpuWrite
  \/ LoopyReadStatus
  \/ LoopyTick

SpecLoopy == InitLoopy /\ [][NextLoopy]_vars

\* The fields of a 15-bit address register.
CoarseX(w) == w % 32

CoarseY(w) == (w \div 32) % 32

Nametable(w) == (w \div 1024) % 4

FineY(w) == (w \div 4096) % 8

(***************************************************************************)
(* C21: every write to $2005 or $2006 flips the one write toggle.  The     *)
(* first $2005 write sets fine_x and t's coarse X, the second t's coarse Y *)
(* and fine Y; the first $2006 write sets bits 8-13 of t and clears bit    *)
(* 14, the second sets t's low byte and makes v equal to t, at once or,    *)
(* under a mapper with relaxed sprite-0 timing, at the next dot.  Nothing  *)
(* else of t, v or fine_x changes.                                         *)
(***************************************************************************)
C21_LoopyWrites ==
  [][LET p == nes.ppu
         q == nes'.ppu
         w == calls'.writes[Len(calls'.writes)]
         addr == w[1]
         value == w[2]
         relaxed == nes.mapper.kind = "mapper71"
     IN /\ last'.kind = "cpu_write_register" =>
             /\ q.write_toggle = ~p.write_toggle
             /\ (addr = 8197 /\ ~p.write_toggle) =>
                  /\ q.fine_x = value % 8 /\ CoarseX(q.t) = value \div 8
                  /\ q.t \div 32 = p.t \div 32 /\ q.v = p.v
             /\ (addr = 8197 /\ p.write_toggle) =>
                  /\ CoarseY(q.t) = value \div 8 /\ FineY(q.t) = value % 8
                  /\ CoarseX(q.t) = CoarseX(p.t) /\ Nametable(q.t) = Nametable(p.t)
                  /\ q.t < 32768 /\ q.v = p.v /\ q.fine_x = p.fine_x
             /\ (addr = 8198 /\ ~p.write_toggle) =>
                  /\ q.t \div 256 = value % 64 /\ q.t % 256 = p.t % 256
                  /\ q.v = p.v /\ q.fine_x = p.fine_x
             /\ (addr = 8198 /\ p.write_toggle) =>
                  /\ q.t % 256 = value /\ q.t \div 256 = p.t \div 256
                  /\ q.fine_x = p.fine_x
                  /\ IF relaxed THEN q.v = p.v /\ q.ppuaddr_reload_pending
                                ELSE q.v = q.t /\ ~q.ppuaddr_reload_pending
        /\ (last'.kind = "tick" /\ p.ppuaddr_reload_pending) =>
             q.v = p.t /\ q.t = p.t /\ ~q.ppuaddr_reload_pending
        /\ (last'.kind = "tick" /\ ~p.ppuaddr_reload_pending) => q.v = p.v /\ q.t = p.t
    ]_vars

\* The writes $2005 = 0x07, $2005 = 0x00, $2006 = 0x20, $2006 = 0x00 and, under
\* Mapper71, one dot have ended with v = 0x2000 and fine_x = 7.
C21_Witness ==
  /\ calls.writes = <<<<8197, 7>>, <<8197, 0>>, <<8198, 32>>, <<8198, 0>>>>
  /\ nes.mapper.kind = "mapper71" /\ last.kind = "tick"
  /\ nes.ppu.v = 8192 /\ nes.ppu.t = 8192 /\ nes.ppu.fine_x = 7
  /\ ~nes.ppu.write_toggle


(***************************************************************************)
(* The PPU's pixel pipeline (ppu.rs): sprite evaluation, the background    *)
(* and sprite shifters, render_pixel's sprite-0 hit and the sprite         *)
(* overflow evaluation.  The frame buffer, the palette and the attribute   *)
(* shifters never reach STATUS and are left out, as is next_tile_id: the   *)
(* CHR of the cartridges below holds one byte value per pattern table, so  *)
(* the tile number does not change the byte fetched.                       *)
(***************************************************************************)
MASK_SHOW_BG_LEFT == 2

MASK_SHOW_SPRITE_LEFT == 4

STATUS_SPRITE_OVERFLOW == 32

STATUS_SPRITE_ZERO_HIT == 64

\* An NROM cartridge whose pattern tables $0000 and $1000 are filled with
\* chr[1] and chr[2].
Mapper0_new(chr) == [kind |-> "nrom", chr |-> chr]

\* Mapper::ppu_read of a pattern-table address.
mapper_ppu_read(m, addr) == m.chr[((addr \div 4096) % 2) + 1]

Ppu_render_new ==
  Ppu_scroll_new @@
  [ oam_addr |-> 0, oam |-> [i \in 0..255 |-> 0],
    next_tile_lsb |-> 0, next_tile_msb |-> 0,
    bg_shift_pattern_lo |-> 0, bg_shift_pattern_hi |-> 0,
    sprite_count |-> 0,
    sprite_patterns_lo |-> [i \in 0..7 |-> 0], sprite_patterns_hi |-> [i \in 0..7 |-> 0],
    sprite_x |-> [i \in 0..7 |-> 0], sprite_attributes |-> [i \in 0..7 |-> 0],
    sprite_indices |-> [i \in 0..7 |-> 0],
    sprite_eval_active |-> FALSE, sprite_eval_n |-> 0, sprite_eval_m |-> 0,
    sprite_eval_found |-> 0, sprite_eval_copy_remaining |-> 0,
    sprite_eval_bug_mode |-> FALSE, sprite_eval_target_scanline |-> 0,
    sprite0_prev_bg_opaque |-> FALSE, allow_relaxed_sprite0_hit |-> FALSE ]

sprite_height(p) == IF HasBit(p.ctrl, CTRL_SPRITE_SIZE_16) THEN 16 ELSE 8

\* u8::reverse_bits.
reverse_bits(b) ==
  LET bit(i) == (b \div (2 ^ i)) % 2
  IN (128 * bit(0)) + (64 * bit(1)) + (32 * bit(2)) + (16 * bit(3))
       + (8 * bit(4)) + (4 * bit(5)) + (2 * bit(6)) + bit(7)

\* The pixel and the opacity of the background at column x.
background_sample(p, x) ==
  IF ~HasBit(p.mask, MASK_SHOW_BG) THEN [pixel |-> 0, opaque |-> FALSE]
  ELSE IF x < 8 /\ ~HasBit(p.mask, MASK_SHOW_BG_LEFT) THEN [pixel |-> 0, opaque |-> FALSE]
  ELSE LET bit == 2 ^ (15 - p.fine_x)
           p0 == IF HasBit(p.bg_shift_pattern_lo, bit) THEN 1 ELSE 0
           p1 == IF HasBit(p.bg_shift_pattern_hi, bit) THEN 1 ELSE 0
           pixel == (2 * p1) + p0
       IN [pixel |-> pixel, opaque |-> pixel # 0]

sprite0_pixel(p, x) ==
  IF ~HasBit(p.mask, MASK_SHOW_SPRITES) THEN 0
  ELSE IF x < 8 /\ ~HasBit(p.mask, MASK_SHOW_SPRITE_LEFT) THEN 0
  ELSE LET slots == {i \in 0..(p.sprite_count - 1) :
                       p.sprite_indices[i] = 0 /\ p.sprite_x[i] = 0}
           i == CHOOSE j \in slots : \A k \in slots : j <= k
           p0 == (p.sprite_patterns_lo[i] \div 128) % 2
           p1 == (p.sprite_patterns_hi[i] \div 128) % 2
       IN IF slots = {} THEN 0 ELSE p0 + (2 * p1)

\* A render_pixel that lets sprite 0 hit at pixel 255 too.
render_pixel_any_column(p, x) ==
  LET bg == background_sample(p, x)
      relaxed_overlap == /\ p.allow_relaxed_sprite0_hit
                         /\ HasBit(p.status, STATUS_SPRITE_OVERFLOW)
                         /\ p.scanline \in 200..239
      hit == /\ sprite0_pixel(p, x) # 0
             /\ (bg.opaque \/ p.sprite0_prev_bg_opaque \/ relaxed_overlap)
  IN [p EXCEPT !.status = IF hit THEN SetMask(@, STATUS_SPRITE_ZERO_HIT) ELSE @,
               !.sprite0_prev_bg_opaque = bg.opaque]

\* render_pixel, less the frame buffer.
render_pixel(p, x) ==
  LET bg == background_sample(p, x)
      relaxed_overlap == /\ p.allow_relaxed_sprite0_hit
                         /\ HasBit(p.status, STATUS_SPRITE_OVERFLOW)
                         /\ p.scanline \in 200..239
      hit == /\ sprite0_pixel(p, x) # 0 /\ x < 255
             /\ (bg.opaque \/ p.sprite0_prev_bg_opaque \/ relaxed_overlap)
  IN [p EXCEPT !.status = IF hit THEN SetMask(@, STATUS_SPRITE_ZERO_HIT) ELSE @,
               !.sprite0_prev_bg_opaque = bg.opaque]

shift_background_registers(p) ==
  [p EXCEPT !.bg_shift_pattern_lo = Wrap16(@ * 2),
            !.bg_shift_pattern_hi = Wrap16(@ * 2)]

load_background_shifters(p) ==
  [p EXCEPT !.bg_shift_pattern_lo = (@ - (@ % 256)) + p.next_tile_lsb,
            !.bg_shift_pattern_hi = (@ - (@ % 256)) + p.next_tile_msb]

shift_sprite_registers(p) ==
  LET moving(i) == i < p.sprite_count /\ p.sprite_x[i] > 0
      shifting(i) == i < p.sprite_count /\ p.sprite_x[i] = 0
  IN [p EXCEPT !.sprite_x = [i \in 0..7 |-> IF moving(i) THEN @[i] - 1 ELSE @[i]],
               !.sprite_patterns_lo =
                  [i \in 0..7 |-> IF shifting(i) THEN Wrap8(@[i] * 2) ELSE @[i]],
               !.sprite_patterns_hi =
                  [i \in 0..7 |-> IF shifting(i) THEN Wrap8(@[i] * 2) ELSE @[i]]]

sprite_match_scanline(byte, scanline, height) ==
  LET row == scanline - (byte + 1) IN row >= 0 /\ row < height

\* The OAM entries evaluate_sprites keeps for a scanline: the first eight
\* in range, in OAM order.
RECURSIVE sprites_in_range(_, _, _, _)
sprites_in_range(p, scanline, i, found) ==
  IF i = 64 \/ Len(found) >= 8 THEN found
  ELSE IF sprite_match_scanline(p.oam[i * 4], scanline, sprite_height(p))
    THEN sprites_in_range(p, scanline, i + 1, Append(found, i))
    ELSE sprites_in_range(p, scanline, i + 1, found)

evaluate_sprites(p, scanline, m) ==
  LET found == sprites_in_range(p, scanline, 0, <<>>)
      height == sprite_height(p)
      tile_index(i) == p.oam[(i * 4) + 1]
      attributes(i) == p.oam[(i * 4) + 2]
      row(i) == scanline - (p.oam[i * 4] + 1)
      sprite_row(i) == IF HasBit(attributes(i), 128) THEN (height - 1) - row(i) ELSE row(i)
      table(i) == IF height = 16 THEN (tile_index(i) % 2) * 4096
                  ELSE IF HasBit(p.ctrl, CTRL_SPRITE_TABLE) THEN 4096 ELSE 0
      tile(i) == IF height = 16
                   THEN (tile_index(i) - (tile_index(i) % 2)) + (sprite_row(i) \div 8)
                   ELSE tile_index(i)
      addr(i) == table(i) + (tile(i) * 16) + (sprite_row(i) % 8)
      flip(i, b) == IF HasBit(attributes(i), 64) THEN reverse_bits(b) ELSE b
      slot(k, f(_)) == IF k < Len(found) THEN f(found[k + 1]) ELSE 0
      low(i) == flip(i, mapper_ppu_read(m, addr(i) % 8192))
      high(i) == flip(i, mapper_ppu_read(m, (addr(i) + 8) % 8192))
      x(i) == p.oam[(i * 4) + 3]
      index(i) == i
  IN [p EXCEPT !.sprite_count = Len(found),
               !.sprite_patterns_lo = [k \in 0..7 |-> slot(k, low)],
               !.sprite_patterns_hi = [k \in 0..7 |-> slot(k, high)],
               !.sprite_x = [k \in 0..7 |-> slot(k, x)],
               !.sprite_attributes = [k \in 0..7 |-> slot(k, attributes)],
               !.sprite_indices = [k \in 0..7 |-> slot(k, index)]]

begin_sprite_overflow_evaluation(p) ==
  LET q == [p EXCEPT !.sprite_eval_active = FALSE, !.sprite_eval_n = 0,
                     !.sprite_eval_m = 0, !.sprite_eval_found = 0,
                     !.sprite_eval_copy_remaining = 0, !.sprite_eval_bug_mode = FALSE]
  IN IF ~rendering_enabled(p) THEN q
     ELSE IF p.scanline \notin 0..239 THEN q
     ELSE [q EXCEPT !.sprite_eval_target_scanline = p.scanline + 1,
                    !.sprite_eval_active = TRUE]

set_sprite_overflow_flag(p) == [p EXCEPT !.status = SetMask(@, STATUS_SPRITE_OVERFLOW)]

\* An evaluation whose diagonal scan steps n alone.
clock_sprite_overflow_evaluation_m_kept(p) ==
  LET byte == p.oam[(p.sprite_eval_n * 4) + p.sprite_eval_m]
      in_range == sprite_match_scanline(byte, p.sprite_eval_target_scanline,
                                        sprite_height(p))
      next_n == p.sprite_eval_n + 1
  IN IF ~p.sprite_eval_active THEN p
     ELSE IF ~rendering_enabled(p) THEN [p EXCEPT !.sprite_eval_active = FALSE]
     ELSE IF (p.cycle - 65) % 2 # 0 THEN p
     ELSE IF p.sprite_eval_n >= 64 THEN [p EXCEPT !.sprite_eval_active = FALSE]
     ELSE IF p.sprite_eval_copy_remaining > 0
       THEN [p EXCEPT !.sprite_eval_copy_remaining = @ - 1,
                      !.sprite_eval_n = IF p.sprite_eval_copy_remaining = 1
                                          THEN next_n ELSE @]
     ELSE IF ~p.sprite_eval_bug_mode
       THEN IF in_range
              THEN IF p.sprite_eval_found < 8
                     THEN [p EXCEPT !.sprite_eval_found = @ + 1,
                                    !.sprite_eval_copy_remaining = 3,
                                    !.sprite_eval_m = 0]
                     ELSE [set_sprite_overflow_flag(p) EXCEPT !.sprite_eval_active = FALSE]
              ELSE IF p.sprite_eval_found < 8
                     THEN [p EXCEPT !.sprite_eval_n = next_n, !.sprite_eval_m = 0]
                     ELSE [p EXCEPT !.sprite_eval_bug_mode = TRUE, !.sprite_eval_m = 1,
                                    !.sprite_eval_n = next_n,
                                    !.sprite_eval_active = IF next_n >= 64 THEN FALSE ELSE @]
     ELSE IF in_range
       THEN [set_sprite_overflow_flag(p) EXCEPT !.sprite_eval_active = FALSE]
       ELSE [p EXCEPT !.sprite_eval_n = next_n,
                      !.sprite_eval_m = @,
                      !.sprite_eval_active = IF next_n >= 64 THEN FALSE ELSE @]

clock_sprite_overflow_evaluation(p) ==
  LET byte == p.oam[(p.sprite_eval_n * 4) + p.sprite_eval_m]
      in_range == sprite_match_scanline(byte, p.sprite_eval_target_scanline,
                                        sprite_height(p))
      next_n == p.sprite_eval_n + 1
  IN IF ~p.sprite_eval_active THEN p
     ELSE IF ~rendering_enabled(p) THEN [p EXCEPT !.sprite_eval_active = FALSE]
     ELSE IF (p.cycle - 65) % 2 # 0 THEN p
     ELSE IF p.sprite_eval_n >= 64 THEN [p EXCEPT !.sprite_eval_active = FALSE]
     ELSE IF p.sprite_eval_copy_remaining > 0
       THEN [p EXCEPT !.sprite_eval_copy_remaining = @ - 1,
                      !.sprite_eval_n = IF p.sprite_eval_copy_remaining = 1
                                          THEN next_n ELSE @]
     ELSE IF ~p.sprite_eval_bug_mode
       THEN IF in_range
              THEN IF p.sprite_eval_found < 8
                     THEN [p EXCEPT !.sprite_eval_found = @ + 1,
                                    !.sprite_eval_copy_remaining = 3,
                                    !.sprite_eval_m = 0]
                     ELSE [set_sprite_overflow_flag(p) EXCEPT !.sprite_eval_active = FALSE]
              ELSE IF p.sprite_eval_found < 8
                     THEN [p EXCEPT !.sprite_eval_n = next_n, !.sprite_eval_m = 0]
                     ELSE [p EXCEPT !.sprite_eval_bug_mode = TRUE, !.sprite_eval_m = 1,
                                    !.sprite_eval_n = next_n,
                                    !.sprite_eval_active = IF next_n >= 64 THEN FALSE ELSE @]
     ELSE IF in_range
       THEN [set_sprite_overflow_flag(p) EXCEPT !.sprite_eval_active = FALSE]
       ELSE [p EXCEPT !.sprite_eval_n = next_n,
                      !.sprite_eval_m = (@ + 1) % 4,
                      !.sprite_eval_active = IF next_n >= 64 THEN FALSE ELSE @]

\* The part of Ppu::tick that drives the pixel pipeline at the dot the PPU
\* is on, in the order of the source.
ppu_tick_render(p, m) ==
  LET visible_line == p.scanline \in 0..239
      render_line == visible_line \/ p.scanline = 261
      enabled == rendering_enabled(p)
      phase == (p.cycle - 1) % 8
      table == IF HasBit(p.ctrl, CTRL_BG_TABLE) THEN 4096 ELSE 0
      relaxed(q) == [q EXCEPT !.allow_relaxed_sprite0_hit = allow_relaxed_sprite0_hit(m)]
      begin(q) == IF visible_line /\ p.cycle = 65
                    THEN begin_sprite_overflow_evaluation(q) ELSE q
      clock(q) == IF visible_line /\ p.cycle \in 65..256
                    THEN clock_sprite_overflow_evaluation(q) ELSE q
      evaluate(q) == IF visible_line /\ p.cycle = 0
                       THEN evaluate_sprites(q, p.scanline, m) ELSE q
      render(q) == IF visible_line /\ p.cycle \in 1..256
                     THEN render_pixel(IF p.cycle = 1
                                         THEN [q EXCEPT !.sprite0_prev_bg_opaque = FALSE]
                                         ELSE q,
                                       p.cycle - 1)
                     ELSE q
      fetch(q) == IF phase = 0 THEN load_background_shifters(q)
                  ELSE IF phase = 4
                    THEN [q EXCEPT !.next_tile_lsb = mapper_ppu_read(m, table)]
                  ELSE IF phase = 6
                    THEN [q EXCEPT !.next_tile_msb = mapper_ppu_read(m, table + 8)]
                  ELSE q
      background(q) == IF p.cycle \in 1..256 \/ p.cycle \in 321..336
                         THEN fetch(shift_background_registers(q)) ELSE q
      sprites(q) == IF visible_line /\ p.cycle \in 1..256
                      THEN shift_sprite_registers(q) ELSE q
      reload(q) == IF p.cycle = 257 THEN load_background_shifters(q) ELSE q
      pipeline(q) == IF render_line /\ enabled
                       THEN reload(sprites(background(q))) ELSE q
  IN pipeline(render(evaluate(clock(begin(relaxed(p))))))


\* Ppu::tick as a whole: the pending reload, the pixel pipeline, the scroll
\* updates and the VBL, NMI and dot-counter logic.
Ppu_tick(p, m) == ppu_tick(ppu_tick_scroll(ppu_tick_render(ppu_tick_reload(p), m)))

(***************************************************************************)
(* SpecStatus: a PPU with an NROM cartridge whose CHR is all $FF.  Before  *)
(* the first dot the program fills OAM by a DMA of 256 bytes $EE (all 64   *)
(* sprites on scanlines 239 and up, sprite 0 among them) and writes $2001  *)
(* with a value of StatusMasks.  Then the PPU is ticked through one frame, *)
(* up to StatusMaxTicks dots; when it stands on a dot of StatusAccessDots  *)
(* the program may read $2002 or write $2005 = $FF, once per dot.  calls   *)
(* keeps the value of the last $2002 read, STATUS and the write toggle as  *)
(* they were before it, and which STATUS flags have been seen set.         *)
(***************************************************************************)
StatusMaxTicks == 89400

StatusOamFill == 238

StatusMasks == {0, 30}

StatusAccessDots == {<<239, 300>>, <<241, 0>>, <<241, 2>>, <<261, 0>>}

InitStatus ==
  /\ nes = [Nes_new EXCEPT !.ppu = Ppu_render_new, !.mapper = Mapper0_new(<<255, 255>>)]
  /\ rf = "idle"
  /\ guard = 0
  /\ last = Last("new")
  /\ calls = [ticks |-> 0, dma |-> FALSE, mask |-> FALSE, value |-> 0,
              status |-> 0, toggle |-> FALSE, seen |-> {}]

StatusOamDma ==
  /\ ~calls.dma
  /\ nes' = [nes EXCEPT !.ppu = write_oam_dma(@, [i \in 1..256 |-> StatusOamFill])]
  /\ calls' = [calls EXCEPT !.dma = TRUE]
  /\ last' = Last("write_oam_dma")
  /\ UNCHANGED <<rf, guard>>

StatusWriteMask ==
  /\ calls.dma /\ ~calls.mask
  /\ \E value \in StatusMasks :
       nes' = [nes EXCEPT !.ppu = cpu_write_register(@, 8193, value, nes.mapper)]
  /\ calls' = [calls EXCEPT !.mask = TRUE]
  /\ last' = Last("cpu_write_register")
  /\ UNCHANGED <<rf, guard>>

StatusTick ==
  /\ calls.mask /\ calls.ticks < StatusMaxTicks
  /\ nes' = [nes EXCEPT !.ppu = Ppu_tick(@, nes.mapper)]
  /\ calls' = [calls EXCEPT !.ticks = @ + 1,
                            !.seen = @ \cup {b \in {32, 64, 128} :
                                                HasBit(nes'.ppu.status, b)}]
  /\ last' = Last("tick")
  /\ UNCHANGED <<rf, guard>>

StatusAccessDot ==
  /\ last.kind = "tick"
  /\ <<nes.ppu.scanline, nes.ppu.cycle>> \in StatusAccessDots

StatusRead ==
  /\ StatusAccessDot
  /\ LET r == ppu_cpu_read_register(nes.ppu, 8194) IN
       /\ nes' = [nes EXCEPT !.ppu = r.ppu]
       /\ calls' = [calls EXCEPT !.value = r.v, !.status = nes.ppu.status,
                                 !.toggle = nes.ppu.write_toggle]
  /\ last' = Last("cpu_read_register")
  /\ UNCHANGED <<rf, guard>>

StatusWriteScroll ==
  /\ StatusAccessDot
  /\ nes' = [nes EXCEPT !.ppu = cpu_write_register(@, 8197, 255, nes.mapper)]
  /\ last' = Last("cpu_write_register")
  /\ UNCHANGED <<rf, guard, calls>>

NextStatus ==
  \/ StatusOamDma
  \/ StatusWriteMask
  \/ StatusTick
  \/ StatusRead
  \/ StatusWriteScroll

SpecStatus == InitStatus /\ [][NextStatus]_vars

(***************************************************************************)
(* C22: every $2002 read leaves the write toggle and the VBL flag clear,   *)
(* returns STATUS bits 7, 6 and 5 as they were before the read, and        *)
(* changes neither the sprite-0-hit flag nor the sprite-overflow flag nor  *)
(* v, t or fine_x.                                                         *)
(***************************************************************************)
C22_StatusRead ==
  [][last'.kind = "cpu_read_register" =>
       /\ ~nes'.ppu.write_toggle
       /\ ~HasBit(nes'.ppu.status, STATUS_VBLANK)
       /\ calls'.value \div 32 = nes.ppu.status \div 32
       /\ nes'.ppu.status % 128 = nes.ppu.status % 128
       /\ nes'.ppu.v = nes.ppu.v /\ nes'.ppu.t = nes.ppu.t
       /\ nes'.ppu.fine_x = nes.ppu.fine_x
    ]_vars

\* A $2002 read in VBL with the toggle set and the three flags set has
\* returned them and left v, t and fine_x at non-zero values.
C22_Witness ==
  /\ last.kind = "cpu_read_register" /\ calls.toggle /\ calls.status = 224
  /\ calls.value \div 32 = 7 /\ nes.ppu.status = 96 /\ ~nes.ppu.write_toggle
  /\ nes.ppu.v # 0 /\ nes.ppu.t # 0 /\ nes.ppu.fine_x = 7


(***************************************************************************)
(* SpecOddFrame: a PPU as Ppu::new leaves it, ticked through up to         *)
(* OddMaxFrames arrivals at scanline 0, dot 0.  When it stands on a dot of *)
(* OddAccessDots the program may write $2001 with a value of OddMasks.     *)
(* calls keeps the dots ticked since the last arrival, the lengths of the  *)
(* last two complete frames (0: none yet) and whether rendering was        *)
(* enabled at every dot of each of them.                                   *)
(***************************************************************************)
OddMaxFrames == 3

OddMasks == {0, MASK_SHOW_BG, MASK_SHOW_SPRITES}

OddAccessDots == {<<100, 0>>, <<261, 339>>, <<261, 340>>}

InitOddFrame ==
  /\ nes = [Nes_new EXCEPT !.ppu = Ppu_new]
  /\ rf = "idle"
  /\ guard = 0
  /\ last = Last("new")
  /\ calls = [frames |-> 0, dots |-> 0, on |-> TRUE, skipped |-> FALSE,
              len |-> 0, len_on |-> FALSE, prev |-> 0, prev_on |-> FALSE]

OddWriteMask ==
  /\ <<nes.ppu.scanline, nes.ppu.cycle>> \in OddAccessDots
  /\ \E value \in OddMasks :
       nes' = [nes EXCEPT !.ppu = ppu_cpu_write_register(@, 8193, value)]
  /\ last' = Last("cpu_write_register")
  /\ UNCHANGED <<rf, guard, calls>>

OddTick ==
  /\ calls.frames < OddMaxFrames
  /\ nes' = [nes EXCEPT !.ppu = ppu_tick(@)]
  /\ LET arrived == nes'.ppu.scanline = 0 /\ nes'.ppu.cycle = 0
         on == calls.on /\ rendering_enabled(nes.ppu)
         whole == calls.frames > 0
     IN calls' = IF arrived
                   THEN [frames |-> calls.frames + 1, dots |-> 0, on |-> TRUE,
                         skipped |-> nes.ppu.cycle = 339,
                         len |-> IF whole THEN calls.dots + 1 ELSE 0,
                         len_on |-> whole /\ on,
                         prev |-> calls.len, prev_on |-> calls.len_on]
                   ELSE [calls EXCEPT !.dots = @ + 1, !.on = on]
  /\ last' = Last("tick")
  /\ UNCHANGED <<rf, guard>>

NextOddFrame ==
  \/ OddWriteMask
  \/ OddTick

SpecOddFrame == InitOddFrame /\ [][NextOddFrame]_vars

(***************************************************************************)
(* C23: the dot processed at dot 339 of the pre-render line leads to       *)
(* scanline 0, dot 0 exactly when rendering is enabled and the frame is    *)
(* odd, and to dot 340 otherwise; a frame then lasts 89,341 dots, and      *)
(* 89,342 dots otherwise; of two successive frames with rendering enabled  *)
(* at every dot, one is short and one is long.                             *)
(***************************************************************************)
C23_OddFrameSkip ==
  [][last'.kind = "tick" =>
       LET p == nes.ppu
           q == nes'.ppu
           skip == rendering_enabled(p) /\ p.odd_frame
       IN /\ (p.scanline = 261 /\ p.cycle = 339) =>
               IF skip THEN q.scanline = 0 /\ q.cycle = 0
                       ELSE q.scanline = 261 /\ q.cycle = 340
          /\ (q.scanline = 0 /\ q.cycle = 0 /\ calls'.len > 0) =>
               /\ calls'.len = IF calls'.skipped THEN 89341 ELSE 89342
               /\ calls'.skipped = (p.cycle = 339 /\ skip)
               /\ (calls'.len_on /\ calls'.prev_on) => calls'.len # calls'.prev
    ]_vars

\* A long frame has followed a short one, rendering enabled throughout both.
C23_Witness ==
  /\ last.kind = "tick" /\ nes.ppu.scanline = 0 /\ nes.ppu.cycle = 0
  /\ calls.len = 89342 /\ calls.prev = 89341 /\ calls.len_on /\ calls.prev_on
  /\ ~calls.skipped


(***************************************************************************)
(* SpecSprite0: a PPU with an NROM cartridge whose two pattern tables hold *)
(* one byte value each, a pair of Sprite0Chrs.  Before the first dot the   *)
(* program fills OAM by a DMA that puts sprite 0 at Y = 0 and an X of      *)
(* Sprite0Xs and hides the other sprites (Y = $FF), writes $2000 with a    *)
(* value of Sprite0Ctrls and $2001 with a value of Sprite0Masks.  Then the *)
(* PPU is ticked through the pre-render line and scanlines 0 and 1, up to  *)
(* Sprite0MaxTicks dots.  calls.both255 tells that a dot has rendered      *)
(* pixel 255 with sprite 0 and the background both opaque there.           *)
(***************************************************************************)
Sprite0MaxTicks == 1023

Sprite0Chrs == {<<128, 128>>, <<255, 255>>, <<128, 255>>, <<255, 1>>}

Sprite0Xs == {0, 1, 7, 247, 248, 254, 255}

Sprite0Ctrls == {0, CTRL_BG_TABLE}

Sprite0Masks == {30, 24, 26, 28, 8, 16}

\* The page the DMA copies: sprite 0 at Y = 0, tile 0, no attributes, X = x.
Sprite0Page(x) == [i \in 1..256 |-> IF i = 4 THEN x ELSE IF i < 4 THEN 0 ELSE 255]

\* The background's opacity at the pixel the PPU is about to render: the
\* bit of the pattern shifters that fine_x selects.
BgBit(p) ==
  LET bit == 2 ^ (15 - p.fine_x)
  IN HasBit(p.bg_shift_pattern_lo, bit) \/ HasBit(p.bg_shift_pattern_hi, bit)

\* Sprite 0's opacity there: it is among the sprites of the scanline, its X
\* counter has run out and a bit 7 of its pattern bytes is set.
Sprite0Bit(p) ==
  \E i \in 0..7 :
    /\ i < p.sprite_count /\ p.sprite_indices[i] = 0 /\ p.sprite_x[i] = 0
    /\ p.sprite_patterns_lo[i] >= 128 \/ p.sprite_patterns_hi[i] >= 128

InitSprite0 ==
  /\ \E chr \in Sprite0Chrs :
       nes = [Nes_new EXCEPT !.ppu = Ppu_render_new, !.mapper = Mapper0_new(chr)]
  /\ rf = "idle"
  /\ guard = 0
  /\ last = Last("new")
  /\ calls = [ticks |-> 0, setup |-> 0, x |-> 0, both255 |-> FALSE]

Sprite0OamDma ==
  /\ calls.setup = 0
  /\ \E x \in Sprite0Xs :
       /\ nes' = [nes EXCEPT !.ppu = write_oam_dma(@, Sprite0Page(x))]
       /\ calls' = [calls EXCEPT !.setup = 1, !.x = x]
  /\ last' = Last("write_oam_dma")
  /\ UNCHANGED <<rf, guard>>

Sprite0WriteCtrl ==
  /\ calls.setup = 1
  /\ \E value \in Sprite0Ctrls :
       nes' = [nes EXCEPT !.ppu = cpu_write_register(@, 8192, value, nes.mapper)]
  /\ calls' = [calls EXCEPT !.setup = 2]
  /\ last' = Last("cpu_write_register")
  /\ UNCHANGED <<rf, guard>>

Sprite0WriteMask ==
  /\ calls.setup = 2
  /\ \E value \in Sprite0Masks :
       nes' = [nes EXCEPT !.ppu = cpu_write_register(@, 8193, value, nes.mapper)]
  /\ calls' = [calls EXCEPT !.setup = 3]
  /\ last' = Last("cpu_write_register")
  /\ UNCHANGED <<rf, guard>>

Sprite0Tick ==
  /\ calls.setup = 3 /\ calls.ticks < Sprite0MaxTicks
  /\ nes' = [nes EXCEPT !.ppu = Ppu_tick(@, nes.mapper)]
  /\ calls' = [calls EXCEPT
                 !.ticks = @ + 1,
                 !.both255 = \/ @
                             \/ /\ nes.ppu.scanline \in 0..239 /\ nes.ppu.cycle = 256
                                /\ HasBit(nes.ppu.mask, MASK_SHOW_BG)
                                /\ HasBit(nes.ppu.mask, MASK_SHOW_SPRITES)
                                /\ BgBit(nes.ppu) /\ Sprite0Bit(nes.ppu)]
  /\ last' = Last("tick")
  /\ UNCHANGED <<rf, guard>>

NextSprite0 ==
  \/ Sprite0OamDma
  \/ Sprite0WriteCtrl
  \/ Sprite0WriteMask
  \/ Sprite0Tick

SpecSprite0 == InitSprite0 /\ [][NextSprite0]_vars

\* The sprite-0-hit flag goes from clear to set in this step.
Sprite0HitSet ==
  ~HasBit(nes.ppu.status, STATUS_SPRITE_ZERO_HIT)
    /\ HasBit(nes'.ppu.status, STATUS_SPRITE_ZERO_HIT)

(***************************************************************************)
(* C24: the sprite-0-hit flag becomes set only in a dot 1-256 of a visible *)
(* scanline, and never in dot 256, which renders pixel 255.                *)
(***************************************************************************)
C24_Sprite0HitDots ==
  [][Sprite0HitSet =>
       /\ last'.kind = "tick"
       /\ nes.ppu.scanline \in 0..239
       /\ nes.ppu.cycle \in 1..255
    ]_vars

\* Scanline 1 has been rendered with sprite 0 and the background both opaque
\* at pixel 255, and at no other pixel of sprite 0; the flag is clear.
C24_Witness ==
  /\ calls.both255 /\ calls.x = 255
  /\ nes.ppu.scanline = 1 /\ nes.ppu.cycle = 257
  /\ ~HasBit(nes.ppu.status, STATUS_SPRITE_ZERO_HIT)

(***************************************************************************)
(* C25: the sprite-0-hit flag becomes set at a pixel only if at that pixel *)
(* sprite 0 is opaque and the background is opaque, with background and    *)
(* sprite rendering both enabled and, in the eight leftmost pixels, both   *)
(* left-column bits of $2001 set.                                          *)
(***************************************************************************)
C25_Sprite0HitPixel ==
  [][Sprite0HitSet =>
       /\ Sprite0Bit(nes.ppu) /\ BgBit(nes.ppu)
       /\ HasBit(nes.ppu.mask, MASK_SHOW_BG) /\ HasBit(nes.ppu.mask, MASK_SHOW_SPRITES)
       /\ nes.ppu.cycle - 1 < 8 =>
            /\ HasBit(nes.ppu.mask, MASK_SHOW_BG_LEFT)
            /\ HasBit(nes.ppu.mask, MASK_SHOW_SPRITE_LEFT)
    ]_vars


(***************************************************************************)
(* C26: on scanlines 0 through 240 the VBL flag is clear.  The dot         *)
(* processed at dot 1 of the pre-render line leaves VBL, sprite-0 hit and  *)
(* sprite overflow clear; no other dot and no register access clears a set *)
(* sprite-0 hit or sprite overflow; VBL becomes set only in the dot        *)
(* processed at scanline 241, dot 1.                                       *)
(***************************************************************************)
C26_StatusLifetime ==
  /\ [](nes.ppu.scanline \in 0..240 => ~HasBit(nes.ppu.status, STATUS_VBLANK))
  /\ [][LET p == nes.ppu
            q == nes'.ppu
            dot(scanline, cycle) ==
              last'.kind = "tick" /\ p.scanline = scanline /\ p.cycle = cycle
        IN /\ dot(261, 1) => q.status \div 32 = 0
           /\ ~dot(261, 1) =>
                /\ HasBit(p.status, STATUS_SPRITE_ZERO_HIT)
                     => HasBit(q.status, STATUS_SPRITE_ZERO_HIT)
                /\ HasBit(p.status, STATUS_SPRITE_OVERFLOW)
                     => HasBit(q.status, STATUS_SPRITE_OVERFLOW)
           /\ (~HasBit(p.status, STATUS_VBLANK) /\ HasBit(q.status, STATUS_VBLANK))
                => dot(241, 1)
       ]_vars

\* Dot 1 of the pre-render line has cleared the three flags, all of which had
\* been set in the frame, sprite-0 hit and sprite overflow through a $2002
\* read that returned them.
C26_Witness ==
  /\ last.kind = "tick" /\ nes.ppu.scanline = 261 /\ nes.ppu.cycle = 2
  /\ nes.ppu.status \div 32 = 0 /\ calls.seen = {32, 64, 128}
  /\ calls.status = 96 /\ calls.value \div 32 = 3


(***************************************************************************)
(* SpecOverflow: a PPU with an NROM cartridge.  Before the first dot the   *)
(* program fills OAM by a DMA whose first k sprites, k of OverflowCounts,  *)
(* have Y = 0 and whose other sprites all hold the four bytes of one       *)
(* member of OverflowRests, writes $2000 with a value of OverflowCtrls and *)
(* $2001 with a value of OverflowMasks.  Then the PPU is ticked through    *)
(* the pre-render line and scanlines 0 and 1, up to OverflowMaxTicks dots. *)
(***************************************************************************)
OverflowMaxTicks == 1023

OverflowCounts == {0, 7, 8, 9}

OverflowRests == {<<255, 255, 255, 255>>, <<255, 0, 255, 255>>,
                  <<255, 255, 1, 255>>, <<255, 255, 255, 0>>}

OverflowCtrls == {0, CTRL_SPRITE_SIZE_16}

OverflowMasks == {0, 24}

OverflowPage(k, rest) ==
  [i \in 1..256 |-> IF i <= 4 * k THEN 0 ELSE rest[((i - 1) % 4) + 1]]

InitOverflow ==
  /\ nes = [Nes_new EXCEPT !.ppu = Ppu_render_new, !.mapper = Mapper0_new(<<0, 0>>)]
  /\ rf = "idle"
  /\ guard = 0
  /\ last = Last("new")
  /\ calls = [ticks |-> 0, setup |-> 0]

OverflowOamDma ==
  /\ calls.setup = 0
  /\ \E k \in OverflowCounts, rest \in OverflowRests :
       nes' = [nes EXCEPT !.ppu = write_oam_dma(@, OverflowPage(k, rest))]
  /\ calls' = [calls EXCEPT !.setup = 1]
  /\ last' = Last("write_oam_dma")
  /\ UNCHANGED <<rf, guard>>

OverflowWriteCtrl ==
  /\ calls.setup = 1
  /\ \E value \in OverflowCtrls :
       nes' = [nes EXCEPT !.ppu = cpu_write_register(@, 8192, value, nes.mapper)]
  /\ calls' = [calls EXCEPT !.setup = 2]
  /\ last' = Last("cpu_write_register")
  /\ UNCHANGED <<rf, guard>>

OverflowWriteMask ==
  /\ calls.setup = 2
  /\ \E value \in OverflowMasks :
       nes' = [nes EXCEPT !.ppu = cpu_write_register(@, 8193, value, nes.mapper)]
  /\ calls' = [calls EXCEPT !.setup = 3]
  /\ last' = Last("cpu_write_register")
  /\ UNCHANGED <<rf, guard>>

OverflowTick ==
  /\ calls.setup = 3 /\ calls.ticks < OverflowMaxTicks
  /\ nes' = [nes EXCEPT !.ppu = Ppu_tick(@, nes.mapper)]
  /\ calls' = [calls EXCEPT !.ticks = @ + 1]
  /\ last' = Last("tick")
  /\ UNCHANGED <<rf, guard>>

NextOverflow ==
  \/ OverflowOamDma
  \/ OverflowWriteCtrl
  \/ OverflowWriteMask
  \/ OverflowTick

SpecOverflow == InitOverflow /\ [][NextOverflow]_vars

\* The evaluation as the dot about to be processed finds it: dot 65 starts
\* it afresh before clocking it.
OverflowEval(p) ==
  IF p.cycle = 65
    THEN [active |-> rendering_enabled(p), n |-> 0, m |-> 0, found |-> 0, copy |-> 0]
    ELSE [active |-> p.sprite_eval_active /\ rendering_enabled(p),
          n |-> p.sprite_eval_n, m |-> p.sprite_eval_m,
          found |-> p.sprite_eval_found, copy |-> p.sprite_eval_copy_remaining]

\* The dot about to be processed clocks the evaluation.
OverflowClocked(p) ==
  /\ p.scanline \in 0..239 /\ p.cycle \in 65..256 /\ (p.cycle - 65) % 2 = 0
  /\ OverflowEval(p).active

\* Byte b, read as a Y coordinate, is in range for the scanline evaluated.
OverflowInRange(p, b) ==
  LET row == p.scanline - b
  IN row >= 0 /\ row < (IF HasBit(p.ctrl, CTRL_SPRITE_SIZE_16) THEN 16 ELSE 8)

(***************************************************************************)
(* C27: the sprite-overflow flag becomes set only in a dot that clocks the *)
(* evaluation with 8 sprites found and tests a byte that is in range.      *)
(* With 8 found, a clock that is not copying tests OAM[4n + m]: in range,  *)
(* it sets the flag and ends the evaluation; out of range, it changes no   *)
(* flag and increments n, and m modulo 4 with no carry into n.  n never    *)
(* exceeds 64 and a clock that finds n at 64 ends the evaluation.          *)
(***************************************************************************)
C27_SpriteOverflow ==
  [][last'.kind = "tick" =>
       LET p == nes.ppu
           q == nes'.ppu
           e == OverflowEval(p)
           tested == OverflowClocked(p) /\ e.n < 64 /\ e.copy = 0
           byte == p.oam[(4 * e.n) + e.m]
           overflow(s) == HasBit(s.status, STATUS_SPRITE_OVERFLOW)
       IN /\ (~overflow(p) /\ overflow(q)) =>
               tested /\ e.found = 8 /\ OverflowInRange(p, byte)
          /\ (tested /\ e.found = 8 /\ OverflowInRange(p, byte)) =>
               overflow(q) /\ ~q.sprite_eval_active
          /\ (tested /\ e.found = 8 /\ ~OverflowInRange(p, byte)) =>
               /\ q.sprite_eval_n = e.n + 1 /\ q.sprite_eval_m = (e.m + 1) % 4
               /\ q.status = p.status
               /\ q.sprite_eval_active = (q.sprite_eval_n < 64)
          /\ q.sprite_eval_n <= 64
          /\ (OverflowClocked(p) /\ e.n = 64) => ~q.sprite_eval_active
    ]_vars

\* On scanline 0, with sprites 0-7 in range and sprite 8 not, the X byte of
\* sprite 11 was tested as a Y coordinate and set the flag.
C27_Witness ==
  /\ nes.ppu.scanline = 0 /\ HasBit(nes.ppu.status, STATUS_SPRITE_OVERFLOW)
  /\ nes.ppu.sprite_eval_found = 8 /\ nes.ppu.sprite_eval_bug_mode
  /\ nes.ppu.sprite_eval_n = 11 /\ nes.ppu.sprite_eval_m = 3
  /\ ~nes.ppu.sprite_eval_active /\ nes.ppu.oam[47] = 0 /\ nes.ppu.oam[44] = 255


\* ---------------------------------------------------------------------------
\* APU frame sequencer: the quarter-frame and half-frame clocks (apu.rs).
\* ---------------------------------------------------------------------------
FC_4STEP_Q1 == 7457
FC_4STEP_Q2_H2 == 14913
FC_4STEP_Q3 == 22371
FC_5STEP_Q1 == 7457
FC_5STEP_Q2_H2 == 14913
FC_5STEP_Q3 == 22371
FC_5STEP_Q4_H4 == 37281

NoFrameClocks == [quarter |-> 0, half |-> 0]

\* clock_frame_counter: the calls of clock_quarter_frame and clock_half_frame
\* it makes for the sequencer cycle it steps to.
clock_frame_counter_clocks(a) ==
  LET fc == a.frame_counter + 1 IN
  IF a.frame_mode_5_step
    THEN IF fc \in {FC_5STEP_Q1, FC_5STEP_Q3}
           THEN [quarter |-> 1, half |-> 0]
           ELSE IF fc \in {FC_5STEP_Q2_H2, FC_5STEP_Q4_H4}
             THEN [quarter |-> 1, half |-> 1]
             ELSE NoFrameClocks
    ELSE IF fc \in {FC_4STEP_Q1, FC_4STEP_Q3}
           THEN [quarter |-> 1, half |-> 0]
           ELSE IF fc \in {FC_4STEP_Q2_H2, FC_4STEP_Q4_H4_IRQ}
             THEN [quarter |-> 1, half |-> 1]
             ELSE NoFrameClocks

\* apply_frame_counter_write: the quarter and half clock of a 5-step write.
apply_frame_counter_write_clocks(value) ==
  IF HasBit(value, 128) THEN [quarter |-> 1, half |-> 1] ELSE NoFrameClocks

\* Apu::tick: whether the pending $4017 write is applied in this tick, the
\* clocks the application issues and the clocks the sequencer step issues.
apu_tick_clocks(a) ==
  LET dl == IF a.frame_counter_write_delay > 0
              THEN a.frame_counter_write_delay - 1 ELSE 0
      applied == a.frame_counter_write_pending /\ dl = 0
      mid == IF applied
               THEN apply_frame_counter_write(a, a.frame_counter_write_value)
               ELSE a
  IN [ applied |-> applied,
       apply |-> IF applied
                   THEN apply_frame_counter_write_clocks(a.frame_counter_write_value)
                   ELSE NoFrameClocks,
       seq |-> clock_frame_counter_clocks(mid),
       cycle |-> mid.frame_counter + 1 ]

\* The frame sequencer driven from power-on: APU ticks, $4017 writes and
\* $4015 reads at chosen CPU cycles.
FcMaxTicks == 38000
FcWriteTicks == {10, 11, 12, 29827, 29828}
FcReadTicks == {29829}
FcValues == {0, 64, 128, 192}

InitFrameCounter ==
  /\ nes = Nes_new
  /\ rf = "idle"
  /\ guard = 0
  /\ last = Last("init")
  /\ calls = [ ticks |-> 0, since |-> 0, even |-> TRUE, value |-> 0,
               replaced |-> -1, before |-> Apu_new,
               clocks |-> apu_tick_clocks(Apu_new) ]

FcTick ==
  /\ calls.ticks < FcMaxTicks
  /\ nes' = [nes EXCEPT !.apu = apu_tick(@)]
  /\ calls' = [calls EXCEPT !.ticks = @ + 1, !.since = @ + 1,
                            !.before = nes.apu,
                            !.clocks = apu_tick_clocks(nes.apu)]
  /\ last' = Last("tick")
  /\ UNCHANGED <<rf, guard>>

FcWriteFrameCounter ==
  /\ calls.ticks \in FcWriteTicks
  /\ last.kind = "tick"
  /\ \E value \in FcValues :
       /\ nes' = [nes EXCEPT !.apu = apu_write_register(@, 16407, value)]
       /\ calls' = [calls EXCEPT !.since = 0, !.value = value,
                                 !.even = (nes.apu.cpu_cycle % 2 = 0),
                                 !.replaced =
                                   IF nes.apu.frame_counter_write_pending
                                     THEN nes.apu.frame_counter_write_value
                                     ELSE -1,
                                 !.before = nes.apu]
  /\ last' = Last("write")
  /\ UNCHANGED <<rf, guard>>

FcReadStatus ==
  /\ calls.ticks \in FcReadTicks
  /\ last.kind = "tick"
  /\ nes' = [nes EXCEPT !.apu = apu_read_status(@).apu]
  /\ calls' = [calls EXCEPT !.before = nes.apu]
  /\ last' = Last("read")
  /\ UNCHANGED <<rf, guard>>

NextFrameCounter == FcTick \/ FcWriteFrameCounter \/ FcReadStatus

SpecFrameCounter == InitFrameCounter /\ [][NextFrameCounter]_vars

\* C28: after every APU tick, with c the sequencer cycle the tick stepped to:
\* in 4-step mode the sequencer issued a quarter-frame clock exactly when c is
\* 7457, 14913, 22371 or 29829 and a half-frame clock exactly when c is 14913
\* or 29829, the frame-IRQ flag is set after the step to 29829 unless
\* IRQ-inhibit is set, and the counter is back at 0 after the step to 29830
\* (and otherwise is c); in 5-step mode the quarter clocks come exactly at
\* 7457, 14913, 22371 and 37281, the half clocks exactly at 14913 and 37281,
\* the counter is back at 0 after 37282, and no tick sets a clear frame-IRQ
\* flag; in every state the flag is clear while IRQ-inhibit is set.
C28_FrameSequencer ==
  /\ nes.apu.frame_irq_inhibit => ~nes.apu.frame_irq_flag
  /\ last.kind = "tick" =>
       LET c == calls.clocks.cycle
           five == nes.apu.frame_mode_5_step
       IN /\ (calls.clocks.seq.quarter = 1) <=>
               (c \in IF five THEN {7457, 14913, 22371, 37281}
                             ELSE {7457, 14913, 22371, 29829})
          /\ (calls.clocks.seq.half = 1) <=>
               (c \in IF five THEN {14913, 37281} ELSE {14913, 29829})
          /\ nes.apu.frame_counter =
               IF c = (IF five THEN 37282 ELSE 29830) THEN 0 ELSE c
          /\ (~five /\ c = 29829 /\ ~nes.apu.frame_irq_inhibit)
               => nes.apu.frame_irq_flag
          /\ five => (nes.apu.frame_irq_flag => calls.before.frame_irq_flag)

\* A 5-step sequence written at power-on has just run to its last cycle and
\* restarted without a frame IRQ.
C28_Witness ==
  /\ last.kind = "tick"
  /\ nes.apu.frame_mode_5_step
  /\ ~nes.apu.frame_irq_inhibit
  /\ calls.clocks.cycle = 37282
  /\ nes.apu.frame_counter = 0
  /\ ~nes.apu.frame_irq_flag

\* C29: a $4017 write leaves mode, IRQ-inhibit and the running sequence as
\* they are; the tick that applies it is the 3rd after a write made on an even
\* CPU cycle and the 4th after one made on an odd cycle, counted from the
\* latest write, and every tick before it steps the previous sequence on in
\* the previous mode without an extra clock; the applying tick takes mode and
\* IRQ-inhibit from the latest written value, restarts the sequence, and
\* issues one quarter and one half clock exactly when that value selects the
\* 5-step mode.
C29_FrameCounterWriteDelay ==
  LET b == calls.before
      a == nes.apu
      due == IF calls.even THEN 3 ELSE 4
      stepped == IF b.frame_counter + 1 =
                      (IF b.frame_mode_5_step THEN 37282 ELSE 29830)
                   THEN 0 ELSE b.frame_counter + 1
  IN /\ last.kind = "write" =>
          /\ a.frame_counter_write_pending
          /\ a.frame_mode_5_step = b.frame_mode_5_step
          /\ a.frame_irq_inhibit = b.frame_irq_inhibit
          /\ a.frame_counter = b.frame_counter
     /\ last.kind = "tick" =>
          /\ calls.clocks.applied <=>
               (b.frame_counter_write_pending /\ calls.since = due)
          /\ calls.clocks.applied =>
               /\ ~a.frame_counter_write_pending
               /\ a.frame_mode_5_step = HasBit(calls.value, 128)
               /\ a.frame_irq_inhibit = HasBit(calls.value, 64)
               /\ a.frame_counter = 1
               /\ calls.clocks.apply =
                    IF HasBit(calls.value, 128)
                      THEN [quarter |-> 1, half |-> 1]
                      ELSE [quarter |-> 0, half |-> 0]
          /\ ~calls.clocks.applied =>
               /\ a.frame_counter_write_pending = b.frame_counter_write_pending
               /\ a.frame_mode_5_step = b.frame_mode_5_step
               /\ a.frame_irq_inhibit = b.frame_irq_inhibit
               /\ a.frame_counter = stepped
               /\ calls.clocks.apply = [quarter |-> 0, half |-> 0]
          /\ b.frame_counter_write_pending => calls.since <= due

\* A write of $40 on cycle 10 was replaced by a write of $80 on the odd cycle
\* 11, which has just taken effect on the 4th tick after it.
C29_Witness ==
  /\ last.kind = "tick"
  /\ calls.clocks.applied
  /\ calls.replaced = 64
  /\ calls.value = 128
  /\ ~calls.even
  /\ calls.since = 4
  /\ calls.ticks = 15
  /\ nes.apu.frame_mode_5_step
  /\ ~nes.apu.frame_irq_inhibit
  /\ nes.apu.frame_counter = 1
  /\ calls.clocks.apply.half = 1


\* ---------------------------------------------------------------------------
\* $4015 bit 4 and the DMC: the bus cycle's APU step (Apu::tick followed by the
\* service of the DMC's DMA request), $4010/$4013 set up at power-on, and
\* $4015 written and read at chosen CPU cycles.
\* ---------------------------------------------------------------------------
Bit4MaxTicks == 1000
Bit4Controls == {15, 79}
Bit4Lengths == {0, 1}
Bit4StatusTicks == {0, 3, 200, 440, 900}

InitBit4 ==
  /\ nes = Nes_new
  /\ rf = "idle"
  /\ guard = 0
  /\ last = Last("init")
  /\ calls = [ ticks |-> 0, stopped |-> FALSE, restarted |-> FALSE,
               dma |-> FALSE, value |-> 0 ]

Bit4Setup ==
  /\ calls.ticks = 0
  /\ \E addr \in {16400, 16403} :
       \E value \in (IF addr = 16400 THEN Bit4Controls ELSE Bit4Lengths) :
         nes' = [nes EXCEPT !.apu = apu_write_register(@, addr, value)]
  /\ last' = Last("setup")
  /\ UNCHANGED <<rf, guard, calls>>

Bit4WriteStatus ==
  /\ calls.ticks \in Bit4StatusTicks
  /\ \E value \in {0, 16} :
       /\ nes' = [nes EXCEPT !.apu = apu_write_register(@, 16405, value)]
       /\ calls' = [calls EXCEPT
                      !.stopped = (value = 0),
                      !.restarted = (value = 16
                                     /\ ~dmc_playback_active(nes.apu.dmc))]
  /\ last' = Last("write")
  /\ UNCHANGED <<rf, guard>>

Bit4ReadStatus ==
  /\ nes' = [nes EXCEPT !.apu = apu_read_status(@).apu]
  /\ calls' = [calls EXCEPT !.value = apu_read_status(nes.apu).v]
  /\ last' = Last("read")
  /\ UNCHANGED <<rf, guard>>

Bit4Tick ==
  /\ calls.ticks < Bit4MaxTicks
  /\ nes' = dmc_dma([nes EXCEPT !.apu = apu_tick(@)])
  /\ calls' = [calls EXCEPT !.ticks = @ + 1,
                            !.dma = apu_tick(nes.apu).dmc_dma_request]
  /\ last' = Last("tick")
  /\ UNCHANGED <<rf, guard>>

NextBit4 == Bit4Setup \/ Bit4WriteStatus \/ Bit4ReadStatus \/ Bit4Tick

SpecBit4 == InitBit4 /\ [][NextBit4]_vars

\* C30: once $4015 has been written with bit 4 clear, and until it is written
\* with bit 4 set, every read of $4015 returns bit 4 = 0 and no APU step
\* performs a DMC DMA; a write with bit 4 set made while no sample is playing
\* loads the byte counter with the programmed length (16 * $4013 + 1), and
\* after a write with bit 4 set a read returns bit 4 = 1 as long as sample
\* bytes remain.
C30_DmcStatusBit4 ==
  /\ (last.kind = "read" /\ calls.stopped) => ~HasBit(calls.value, 16)
  /\ (last.kind = "tick" /\ calls.stopped) => ~calls.dma
  /\ (last.kind = "write" /\ calls.restarted) =>
       nes.apu.dmc.bytes_remaining = 16 * nes.apu.dmc.sample_length + 1
  /\ (last.kind = "read" /\ ~calls.stopped /\ nes.apu.dmc.bytes_remaining > 0)
       => HasBit(calls.value, 16)


\* ---------------------------------------------------------------------------
\* The CPU's read of $4015 (mod.rs cpu_read, apu.rs read_status), applied to
\* machines with every combination of the IRQ sources.  The channels'
\* length counters are carried as pulse1, pulse2, triangle and noise.
\* ---------------------------------------------------------------------------
RsMaxReads == 2
RsLengths == {0, 5}
RsFrameCounters == {0, FC_4STEP_Q4_H4_IRQ}

\* read_status: bits 0-3 from the length counters, the rest as
\* apu_read_status.
read_status(a) ==
  [ v |-> (IF a.pulse1.length_counter > 0 THEN 1 ELSE 0)
          + (IF a.pulse2.length_counter > 0 THEN 2 ELSE 0)
          + (IF a.triangle.length_counter > 0 THEN 4 ELSE 0)
          + (IF a.noise.length_counter > 0 THEN 8 ELSE 0)
          + apu_read_status(a).v,
    apu |-> apu_read_status(a).apu ]

InitReadStatus ==
  /\ \E lens \in [{"pulse1", "pulse2", "triangle", "noise"} -> RsLengths] :
     \E fc \in RsFrameCounters :
     \E frame \in BOOLEAN : \E dmc \in BOOLEAN : \E inprog \in BOOLEAN :
     \E m \in { NoMapper, Mapper69_new(CartFme7.vectors),
                [Mapper69_new(CartFme7.vectors) EXCEPT !.irq_enabled = TRUE,
                                                       !.irq_pending = TRUE] } :
       nes = recompute_pending_irq(
               [Nes_new EXCEPT
                  !.apu = [Apu_new EXCEPT !.frame_counter = fc,
                                          !.cpu_cycle = fc,
                                          !.frame_irq_flag = frame,
                                          !.dmc.irq_enabled = dmc,
                                          !.dmc.irq_flag = dmc]
                          @@ [ pulse1 |-> [length_counter |-> lens["pulse1"]],
                               pulse2 |-> [length_counter |-> lens["pulse2"]],
                               triangle |-> [length_counter |-> lens["triangle"]],
                               noise |-> [length_counter |-> lens["noise"]] ],
                  !.mapper = m,
                  !.cpu_step_in_progress = inprog])
  /\ rf = "idle"
  /\ guard = 0
  /\ last = Last("init")
  /\ calls = [reads |-> 0, at |-> nes, value |-> 0, status |-> 0]

RsRead ==
  /\ calls.reads < RsMaxReads
  /\ nes' = cpu_read(nes, 16405, 0).n
  /\ calls' = [ reads |-> calls.reads + 1,
                at |-> maybe_tick_cpu_bus_cycle(nes),
                value |-> cpu_read(nes, 16405, 0).v,
                status |-> read_status(maybe_tick_cpu_bus_cycle(nes).apu).v ]
  /\ last' = Last("read")
  /\ UNCHANGED <<rf, guard>>

NextReadStatus == RsRead

SpecReadStatus == InitReadStatus /\ [][NextReadStatus]_vars

\* C31: with b the machine at the read (after the read's own bus cycle) and a
\* the machine after it, a CPU read of $4015 returns b's frame-IRQ flag in bit
\* 6 and b's DMC-IRQ flag in bit 7; a's APU is b's APU with the frame-IRQ flag
\* clear and nothing else changed (DMC-IRQ flag, length counters, sequencer
\* counter and mode, pending $4017 write), the mapper is unchanged, and
\* pending_irq is set exactly when the DMC-IRQ flag or the mapper's IRQ line
\* is still asserted.
C31_StatusReadEffect ==
  last.kind = "read" =>
    LET b == calls.at
        a == nes
    IN /\ HasBit(calls.value, 64) = b.apu.frame_irq_flag
       /\ HasBit(calls.value, 128) = b.apu.dmc.irq_flag
       /\ HasBit(calls.status, 64) = b.apu.frame_irq_flag
       /\ HasBit(calls.status, 128) = b.apu.dmc.irq_flag
       /\ a.apu = [b.apu EXCEPT !.frame_irq_flag = FALSE]
       /\ a.apu.dmc.irq_flag = b.apu.dmc.irq_flag
       /\ a.apu.frame_counter = b.apu.frame_counter
       /\ a.apu.pulse1 = b.apu.pulse1 /\ a.apu.pulse2 = b.apu.pulse2
       /\ a.apu.triangle = b.apu.triangle /\ a.apu.noise = b.apu.noise
       /\ a.mapper = b.mapper
       /\ a.pending_irq = (b.apu.dmc.irq_flag \/ mapper_irq_pending(b.mapper))

\* A read inside an instruction whose bus cycle stepped the sequencer to
\* 29830 and raised the frame IRQ: the read returned it and cleared it, and
\* with no other source asserted the CPU's pending IRQ went away.
C31_Witness ==
  /\ last.kind = "read"
  /\ calls.reads = 1
  /\ calls.at.cpu_step_in_progress
  /\ calls.at.apu.frame_irq_flag
  /\ calls.at.pending_irq
  /\ calls.at.apu.frame_counter = 0
  /\ HasBit(calls.value, 64) /\ ~HasBit(calls.value, 128)
  /\ calls.status % 16 = 5
  /\ ~nes.apu.frame_irq_flag
  /\ ~nes.pending_irq
  /\ nes.apu.pulse1.length_counter = 5


\* ---------------------------------------------------------------------------
\* The DMC's sample fetches: $4010, $4012 and $4013 programmed and $4015
\* written at power-on, the bus cycle's APU step with its DMA service, and
\* $4010 rewritten while the sample plays.
\* ---------------------------------------------------------------------------
SampleMaxTicks == 29000
SampleControls == {15, 79, 143, 207}
SampleAddrs == {0, 255}
SampleLengths == {0, 4}
SampleRewriteTicks == {450}

InitSample ==
  /\ nes = Nes_new
  /\ rf = "idle"
  /\ guard = 0
  /\ last = Last("init")
  /\ calls = [ ticks |-> 0, dma |-> FALSE, before |-> DmcChannel_new,
               wrapped |-> FALSE, restarts |-> 0 ]

SampleSetup ==
  /\ calls.ticks = 0
  /\ ~nes.apu.dmc.enabled
  /\ \E addr \in {16400, 16402, 16403} :
       \E value \in (IF addr = 16400 THEN SampleControls
                     ELSE IF addr = 16402 THEN SampleAddrs ELSE SampleLengths) :
         nes' = cpu_write(nes, addr, value)
  /\ calls' = [calls EXCEPT !.before = nes.apu.dmc, !.dma = FALSE]
  /\ last' = Last("setup")
  /\ UNCHANGED <<rf, guard>>

SampleStart ==
  /\ calls.ticks = 0
  /\ ~nes.apu.dmc.enabled
  /\ nes' = cpu_write(nes, 16405, 16)
  /\ calls' = [calls EXCEPT !.before = nes.apu.dmc, !.dma = FALSE]
  /\ last' = Last("start")
  /\ UNCHANGED <<rf, guard>>

SampleRewrite ==
  /\ calls.ticks \in SampleRewriteTicks
  /\ last.kind = "tick"
  /\ \E value \in {15, 143} : nes' = cpu_write(nes, 16400, value)
  /\ calls' = [calls EXCEPT !.before = nes.apu.dmc, !.dma = FALSE]
  /\ last' = Last("rewrite")
  /\ UNCHANGED <<rf, guard>>

SampleTick ==
  /\ calls.ticks < SampleMaxTicks
  /\ nes.apu.dmc.enabled
  /\ nes' = dmc_dma([nes EXCEPT !.apu = apu_tick(@)])
  /\ calls' = [calls EXCEPT
                 !.ticks = @ + 1,
                 !.before = nes.apu.dmc,
                 !.dma = apu_tick(nes.apu).dmc_dma_request,
                 !.wrapped = @ \/ (apu_tick(nes.apu).dmc_dma_request
                                   /\ nes.apu.dmc.current_addr = 65535
                                   /\ nes.apu.dmc.bytes_remaining > 0),
                 !.restarts = IF apu_tick(nes.apu).dmc_dma_request
                                 /\ nes.apu.dmc.bytes_remaining = 1
                                 /\ nes.apu.dmc.loop_flag /\ @ < 1
                                THEN @ + 1 ELSE @]
  /\ last' = Last("tick")
  /\ UNCHANGED <<rf, guard>>

NextSample == SampleSetup \/ SampleStart \/ SampleRewrite \/ SampleTick

SpecSample == InitSample /\ [][NextSample]_vars

\* C32: when an APU step fetches the last byte of the sample (one byte was
\* remaining), then with the loop flag set the byte counter is reloaded with
\* 16 * $4013 + 1 and the fetch address with 0xC000 + 64 * $4012 and the
\* DMC-IRQ flag is not raised, and with the loop flag clear no byte remains
\* and the DMC-IRQ flag is set after the fetch exactly when DMC IRQ is
\* enabled; a fetch of another byte raises no IRQ and steps the address by
\* one, from 0xFFFF to 0x8000; in every state the DMC-IRQ flag is clear while
\* DMC IRQ is disabled and the fetch address is within 0x8000..0xFFFF.
C32_DmcSampleEnd ==
  LET b == calls.before
      d == nes.apu.dmc
  IN /\ d.irq_flag => d.irq_enabled
     /\ d.current_addr \in 32768..65535
     /\ (last.kind = "tick" /\ calls.dma /\ b.bytes_remaining = 1) =>
          IF b.loop_flag
            THEN /\ d.bytes_remaining = 16 * b.sample_length + 1
                 /\ d.current_addr = 49152 + 64 * b.sample_addr
                 /\ d.irq_flag = b.irq_flag
            ELSE /\ d.bytes_remaining = 0
                 /\ d.irq_flag = b.irq_enabled
     /\ (last.kind = "tick" /\ calls.dma /\ b.bytes_remaining > 1) =>
          /\ d.bytes_remaining = b.bytes_remaining - 1
          /\ d.irq_flag = b.irq_flag
          /\ d.current_addr = IF b.current_addr = 65535 THEN 32768
                              ELSE b.current_addr + 1

\* A looping 65-byte sample programmed at 0xFFC0 has wrapped its fetch address
\* from 0xFFFF to 0x8000 and has just fetched its last byte and restarted.
C32_Witness ==
  /\ last.kind = "tick"
  /\ calls.dma
  /\ calls.wrapped
  /\ calls.before.bytes_remaining = 1
  /\ calls.before.current_addr = 32768
  /\ calls.before.loop_flag
  /\ nes.apu.dmc.bytes_remaining = 65
  /\ nes.apu.dmc.current_addr = 65472


\* ---------------------------------------------------------------------------
\* Two core instances (nes and calls.twin) loaded with the same cartridge
\* from files of any names and driven with the same run_frame calls.  The ROM
\* stores a value at $0400 and then loops copying $0400 to $2001.
\* ---------------------------------------------------------------------------
TwinMaxFrames == 2
TwinNames == {GameNes, AccuracyCoinNes}
TwinValues == {10}
TwinCarts == {CartFme7}

\* The instruction the ROM holds at pc.
TwinRom(pc, value) ==
  IF pc = 32768 THEN Imm(169, value)
  ELSE IF pc = 32770 THEN Abs(141, 1024)
  ELSE IF pc = 32773 THEN Abs(173, 1024)
  ELSE IF pc = 32776 THEN Abs(141, 8193)
  ELSE IF pc = 32779 THEN Abs(76, 32773)
  ELSE Implied(234)

\* One pass of run_frame's loop, with the epilogue when the loop ends.
run_frame_pass(n, ins, g) ==
  LET finish(m, done) == [n |-> IF done THEN run_frame_epilogue(m) ELSE m, done |-> done]
      loop(m) == finish(m, (g + 1 > FRAME_GUARD) \/ m.ppu.frame_complete)
  IN loop(run_frame_iteration(n, ins).n)

\* What the host sees of a core after a frame: the PPU, which holds the
\* frame buffer and the registers every pixel is produced from, and the APU,
\* which holds the sample stream.
frame_output(n) == [ppu |-> n.ppu, apu |-> n.apu]

InitTwin ==
  /\ nes = Nes_new
  /\ rf = "idle"
  /\ guard = 0
  /\ last = Last("new")
  /\ calls = [twin |-> Nes_new, rf |-> "idle", guard |-> 0, frames |-> 0,
              value |-> 0]

TwinLoad ==
  /\ rf = "idle" /\ calls.rf = "idle"
  /\ nes.mapper.kind = "none"
  /\ \E cart \in TwinCarts : \E na \in TwinNames : \E nb \in TwinNames :
     \E value \in TwinValues :
       /\ nes' = load_rom_from_path(nes, [name |-> na, file |-> "cart",
                                          cart |-> cart]).n
       /\ calls' = [calls EXCEPT
                      !.twin = load_rom_from_path(@, [name |-> nb, file |-> "cart",
                                                      cart |-> cart]).n,
                      !.value = value]
  /\ last' = Last("load_ok")
  /\ UNCHANGED <<rf, guard>>

TwinRunFrameEnter ==
  /\ rf = "idle" /\ calls.rf = "idle"
  /\ nes.mapper.kind # "none" /\ ~nes.halted /\ ~calls.twin.halted
  /\ calls.frames < TwinMaxFrames
  /\ nes' = [nes EXCEPT !.ppu = clear_frame_complete(@)]
  /\ rf' = "loop"
  /\ guard' = 0
  /\ calls' = [calls EXCEPT !.twin.ppu = clear_frame_complete(@),
                            !.rf = "loop", !.guard = 0, !.frames = @ + 1]
  /\ last' = Last("run_frame")

TwinRunFrameStep ==
  /\ rf = "loop" \/ calls.rf = "loop"
  /\ LET First(pa) ==
           /\ nes' = pa.n
           /\ rf' = IF pa.done THEN "idle" ELSE "loop"
           /\ guard' = IF pa.done THEN 0 ELSE guard + 1
         second(pb) ==
           [calls EXCEPT !.twin = pb.n,
                         !.rf = IF pb.done THEN "idle" ELSE "loop",
                         !.guard = IF pb.done THEN 0 ELSE @ + 1]
     IN /\ IF rf = "loop"
             THEN First(run_frame_pass(nes, TwinRom(nes.pc, calls.value), guard))
             ELSE UNCHANGED <<nes, rf, guard>>
        /\ calls' = IF calls.rf = "loop"
                      THEN second(run_frame_pass(calls.twin,
                                                 TwinRom(calls.twin.pc, calls.value),
                                                 calls.guard))
                      ELSE calls
  /\ last' = Last("step")

NextTwin == TwinLoad \/ TwinRunFrameEnter \/ TwinRunFrameStep

SpecTwin == InitTwin /\ [][NextTwin]_vars

\* C33: whenever both instances have returned from the same number of
\* run_frame calls, what the host sees of them is the same: the same PPU
\* (frame buffer and the registers it is drawn from) and the same APU
\* (sample stream), whatever the names of the files the ROM was loaded from.
C33_Determinism ==
  (rf = "idle" /\ calls.rf = "idle" /\ calls.frames > 0)
    => frame_output(nes) = frame_output(calls.twin)


\* ---------------------------------------------------------------------------
\* load_cartridge on cartridges of every mapper id up to LoadMaxId and of the
\* ids around DOCUMENTED_MAPPER_MAX_ID.
\* ---------------------------------------------------------------------------
LoadMaxId == 120
LoadMaxCalls == 2
LoadIds == 0..LoadMaxId \cup {DOCUMENTED_MAPPER_MAX_ID, DOCUMENTED_MAPPER_MAX_ID + 1, 4095}

InitLoad ==
  /\ nes = Nes_new
  /\ rf = "idle"
  /\ guard = 0
  /\ last = Last("new")
  /\ calls = [loads |-> 0, id |-> -1, before |-> Nes_new]

LoadCartridge ==
  /\ calls.loads < LoadMaxCalls
  /\ \E id \in LoadIds :
       LET r == load_cartridge(nes, [mapper_id |-> id, vectors |-> CartFme7.vectors])
       IN /\ nes' = r.n
          /\ last' = Last(IF r.ok THEN "load_ok" ELSE "load_err")
          /\ calls' = [loads |-> calls.loads + 1, id |-> id, before |-> nes]
  /\ UNCHANGED <<rf, guard>>

NextLoad == LoadCartridge

SpecLoad == InitLoad /\ [][NextLoad]_vars

\* C34: a load of a cartridge whose mapper id is not 0, 1, 2, 3, 4, 5, 7, 9,
\* 10, 19, 24, 25, 26, 66, 69, 71 or 85 returns an error and leaves the core's
\* mapper as it was.
C34_UnsupportedMapper ==
  (last.kind \in {"load_ok", "load_err"}
     /\ calls.id \notin {0, 1, 2, 3, 4, 5, 7, 9, 10, 19, 24, 25, 26, 66, 69, 71, 85})
    => /\ last.kind = "load_err"
       /\ nes.mapper = calls.before.mapper
       /\ nes.mapper_id = calls.before.mapper_id


\* ---------------------------------------------------------------------------
\* Cartridge::from_bytes (cartridge.rs).  A file is its length and its first
\* 16 bytes (head; what a file shorter than 16 bytes holds is not looked at);
\* the payload's contents are not carried, a cartridge's PRG and CHR are
\* their lengths.
\* ---------------------------------------------------------------------------
NesMagic == <<78, 69, 83, 26>>

from_bytes(file) ==
  LET b(i) == file.head[i + 1]
      flags6 == b(6)
      flags7 == b(7)
      is_nes2 == (flags7 \div 4) % 4 = 2
      mapper_id_low == (flags6 \div 16) + (flags7 \div 16) * 16
      mapper_id == IF is_nes2 THEN mapper_id_low + (b(8) % 16) * 256 ELSE mapper_id_low
      trainer_present == HasBit(flags6, 4)
      prg_msb == b(9) % 16
      chr_msb == b(9) \div 16
      exponent == is_nes2 /\ (prg_msb = 15 \/ chr_msb = 15)
      prg_units == IF is_nes2
                     THEN (IF prg_msb * 256 + b(4) < 1 THEN 1 ELSE prg_msb * 256 + b(4))
                     ELSE (IF b(4) < 1 THEN 1 ELSE b(4))
      chr_units == IF is_nes2 THEN chr_msb * 256 + b(5) ELSE b(5)
      prg_rom_size == prg_units * 16 * 1024
      chr_rom_size == chr_units * 8 * 1024
      cursor == IF trainer_present THEN 16 + 512 ELSE 16
      prg_rom_end == cursor + prg_rom_size
      Err(kind) == [ok |-> FALSE, err |-> kind]
  IN IF file.len < 16 THEN Err("too_small")
     ELSE IF SubSeq(file.head, 1, 4) # NesMagic THEN Err("bad_magic")
     ELSE IF exponent THEN Err("exponent_size")
     ELSE IF file.len < cursor + prg_rom_size THEN Err("truncated_prg")
     ELSE IF chr_rom_size # 0 /\ file.len < prg_rom_end + chr_rom_size
       THEN Err("truncated_chr")
     ELSE IF prg_rom_size = 0 THEN Err("empty_prg")
     ELSE [ok |-> TRUE, err |-> "none",
           cart |-> [mapper_id |-> mapper_id, prg_rom |-> prg_rom_size,
                     chr_data |-> IF chr_rom_size = 0 THEN 8 * 1024 ELSE chr_rom_size,
                     chr_is_ram |-> chr_rom_size = 0]]

ParseMaxCalls == 1
ParseLens == {0, 15, 16, 528, 16399, 16400, 16912, 24592, 25104, 32784}
ParseMagics == {NesMagic, <<78, 69, 83, 0>>, <<0, 69, 83, 26>>}
ParseFlags6 == {0, 4, 16}
ParseFlags7 == {0, 8}
ParsePrgUnits == {0, 1, 2}
ParseChrUnits == {0, 1}
ParseByte9 == {0, 15, 240, 1}

ParseFile(len, magic, f6, f7, b4, b5, b9) ==
  [len |-> len, head |-> magic \o <<b4, b5, f6, f7, 0, b9, 0, 0, 0, 0, 0, 0>>]

InitParse ==
  /\ nes = Nes_new
  /\ rf = "idle"
  /\ guard = 0
  /\ last = Last("new")
  /\ calls = [parses |-> 0, file |-> ParseFile(0, NesMagic, 0, 0, 0, 0, 0),
              result |-> [ok |-> FALSE, err |-> "none"]]

ParseCartridge ==
  /\ calls.parses < ParseMaxCalls
  /\ \E len \in ParseLens : \E magic \in ParseMagics : \E f6 \in ParseFlags6 :
     \E f7 \in ParseFlags7 : \E b4 \in ParsePrgUnits : \E b5 \in ParseChrUnits :
     \E b9 \in ParseByte9 :
       LET file == ParseFile(len, magic, f6, f7, b4, b5, b9) IN
       calls' = [parses |-> calls.parses + 1, file |-> file,
                 result |-> from_bytes(file)]
  /\ last' = Last("parse")
  /\ UNCHANGED <<nes, rf, guard>>

NextParse == ParseCartridge

SpecParse == InitParse /\ [][NextParse]_vars

\* What the header of the file declares, read as the iNES and NES 2.0
\* formats define it.
ParseNes2(file) == (file.head[8] \div 4) % 4 = 2
ParseDeclaredPrgUnits(file) ==
  IF ParseNes2(file) THEN (file.head[10] % 16) * 256 + file.head[5] ELSE file.head[5]
ParseDeclaredChrUnits(file) ==
  IF ParseNes2(file) THEN (file.head[10] \div 16) * 256 + file.head[6] ELSE file.head[6]
ParsePayload(file) == file.len - 16 - (IF HasBit(file.head[7], 4) THEN 512 ELSE 0)

\* C35: parsing returns an error for every file that is shorter than 16
\* bytes, or does not start with "NES" 0x1A, or is NES 2.0 with a size nibble
\* of 0xF (exponent encoding), or declares more PRG and CHR bytes than the
\* file holds after the header and the trainer, or declares zero PRG units.
C35_ParseErrors ==
  last.kind = "parse" =>
    LET f == calls.file IN
    ( \/ f.len < 16
      \/ SubSeq(f.head, 1, 4) # <<78, 69, 83, 26>>
      \/ (ParseNes2(f) /\ (f.head[10] % 16 = 15 \/ f.head[10] \div 16 = 15))
      \/ ParsePayload(f) < ParseDeclaredPrgUnits(f) * 16384
                           + ParseDeclaredChrUnits(f) * 8192
      \/ ParseDeclaredPrgUnits(f) = 0 )
    => ~calls.result.ok


\* ---------------------------------------------------------------------------
\* Conditional branches: a loaded core runs passes of run_frame's loop over
\* programs of loads (to set Z and N), a jump to the end of a page, and the
\* eight branches with offsets forward, backward and across a page.
\* ---------------------------------------------------------------------------
BranchMaxSteps == 3
BranchOffsets == {2, 127, 253}
BranchMenu ==
  { Imm(169, 0), Imm(169, 128), Abs(76, 33020) }
  \cup { Imm(op, off) : op \in BranchOpcodes, off \in BranchOffsets }

InitBranch ==
  /\ nes = load_rom_from_path(Nes_new, [name |-> GameNes, file |-> "cart",
                                        cart |-> CartFme7]).n
  /\ rf = "loop"
  /\ guard = 0
  /\ last = Last("load_ok")
  /\ calls = [steps |-> 0, ins |-> Implied(234), before |-> nes, cycles |-> 0]

BranchStep ==
  /\ calls.steps < BranchMaxSteps
  /\ \E ins \in BranchMenu :
       LET Pass(it) ==
             /\ nes' = it.n
             /\ last' = Last(it.kind)
             /\ calls' = [steps |-> calls.steps + 1, ins |-> ins, before |-> nes,
                          cycles |-> it.cycles]
       IN Pass(run_frame_iteration(nes, ins))
  /\ guard' = guard + 1
  /\ UNCHANGED rf

NextBranch == BranchStep

SpecBranch == InitBranch /\ [][NextBranch]_vars

\* Whether the branch opcode op is taken with the flags p.
BranchTaken(op, p) ==
  IF op = 16 THEN ~HasBit(p, 128) ELSE IF op = 48 THEN HasBit(p, 128)
  ELSE IF op = 80 THEN ~HasBit(p, 64) ELSE IF op = 112 THEN HasBit(p, 64)
  ELSE IF op = 144 THEN ~HasBit(p, 1) ELSE IF op = 176 THEN HasBit(p, 1)
  ELSE IF op = 208 THEN ~HasBit(p, 2) ELSE HasBit(p, 2)

\* C36: a pass of run_frame's loop that executes a conditional branch takes 2
\* CPU cycles when the branch is not taken, 3 when it is taken to a target in
\* the page of the following instruction and 4 when the target is in another
\* page; PC ends at the following instruction or at the target; and the pass
\* advances the CPU cycle count, the APU's ticks and the mapper's ticks by
\* that number and the PPU's dots by three times that number.
C36_BranchCycles ==
  (last.kind = "exec" /\ calls.ins.op \in {16, 48, 80, 112, 144, 176, 208, 240}) =>
    LET b == calls.before
        next == Wrap16(b.pc + 2)
        off == IF calls.ins.lo >= 128 THEN calls.ins.lo - 256 ELSE calls.ins.lo
        target == Wrap16(next + off + 65536)
        taken == BranchTaken(calls.ins.op, b.p)
        expected == IF ~taken THEN 2
                    ELSE IF next \div 256 = target \div 256 THEN 3 ELSE 4
    IN /\ calls.cycles = expected
       /\ nes.pc = IF taken THEN target ELSE next
       /\ nes.total_cycles = b.total_cycles + expected
       /\ nes.debug.ppu_cycles = b.debug.ppu_cycles + 3 * expected
       /\ nes.debug.apu_ticks = b.debug.apu_ticks + expected
       /\ nes.hist.mapper_ticks = b.hist.mapper_ticks + expected
       /\ nes.cpu_step_ticked_cycles = 0

\* A BMI taken, with N set by the load before it, from the end of page 0x80
\* into page 0x81: 4 cycles.
C36_Witness ==
  /\ last.kind = "exec"
  /\ calls.ins = Imm(48, 2)
  /\ calls.before.pc = 33020
  /\ HasBit(calls.before.p, 128)
  /\ calls.cycles = 4
  /\ nes.pc = 33024
  /\ nes.total_cycles = calls.before.total_cycles + 4

(***************************************************************************)
(* Palette RAM (ppu.rs): the 32 bytes behind PPU addresses 0x3F00-0x3FFF,  *)
(* reached by the CPU through $2006 (address) and $2007 (data).  The       *)
(* pattern and nametable bytes are not carried: they read as VramByte.     *)
(***************************************************************************)
PALETTE_BASE == 16128

Ppu_palette_new ==
  Ppu_scroll_new @@ [palette_ram |-> [i \in 0..31 |-> 15], read_buffer |-> 0]

\* A palette_index without the fold of 0x10/0x14/0x18/0x1C.
palette_index_unfolded(addr) == (addr - PALETTE_BASE) % 32

palette_index(addr) ==
  LET index == (addr - PALETTE_BASE) % 32
  IN IF index >= 16 /\ index % 4 = 0 THEN index - 16 ELSE index

\* ppu_read: the byte at a PPU address (addr & 0x3FFF).
ppu_read(p, addr) ==
  LET a == addr % 16384
  IN IF a >= PALETTE_BASE THEN p.palette_ram[palette_index(a)] ELSE VramByte

\* ppu_write: the PPU after a byte is stored at a PPU address.
ppu_write(p, addr, value) ==
  LET a == addr % 16384
  IN IF a >= PALETTE_BASE
       THEN [p EXCEPT !.palette_ram[palette_index(a)] = value]
       ELSE p

\* cpu_write_register's arm for $2007, with the byte it stores.
cpu_write_data(p, value, m) ==
  cpu_write_register(ppu_write(p, p.v % 16384, value), 8199, value, m)

\* cpu_read_register's arm for $2007: the value read and the PPU after it.
cpu_read_data(p) ==
  LET ppu_addr == p.v % 16384
      value == ppu_read(p, ppu_addr)
      result == IF ppu_addr >= PALETTE_BASE THEN value ELSE p.read_buffer
      buffer == IF ppu_addr >= PALETTE_BASE
                  THEN ppu_read(p, (ppu_addr - 4096) % 16384)
                  ELSE value
  IN [v |-> result,
      ppu |-> [increment_vram_addr_cpu_access(p) EXCEPT !.read_buffer = buffer,
                                                        !.open_bus = result]]

(***************************************************************************)
(* SpecPalette: a PPU as Ppu::new leaves it under up to PalMaxOps CPU      *)
(* accesses: $2006 writes of PalHighs and PalLows, $2007 writes of         *)
(* PalValues and $2007 reads.  calls.written keeps, for each of the four   *)
(* pairs, the last byte written through either address of the pair.        *)
(***************************************************************************)
PalMaxOps == 6

PalHighs == {63, 127}

PalLows == {0, 16, 20, 47, 236, 252}

PalValues == {1, 2}

PalPairs == {0, 4, 8, 12}

PalMirrors == {0, 32, 224}

InitPalette ==
  /\ nes = [Nes_new EXCEPT !.ppu = Ppu_palette_new, !.mapper = Mapper1_new]
  /\ rf = "idle"
  /\ guard = 0
  /\ last = Last("new")
  /\ calls = [ops |-> 0, at |-> 0, value |-> 0, read |-> 0,
              written |-> [k \in PalPairs |-> 15]]

PalWriteAddr ==
  /\ calls.ops < PalMaxOps
  /\ \E value \in (IF nes.ppu.write_toggle THEN PalLows ELSE PalHighs) :
       /\ nes' = [nes EXCEPT !.ppu = cpu_write_register(@, 8198, value, nes.mapper)]
       /\ calls' = [calls EXCEPT !.ops = @ + 1, !.value = value]
  /\ last' = Last("write_addr")
  /\ UNCHANGED <<rf, guard>>

PalWriteData ==
  /\ calls.ops < PalMaxOps
  /\ \E value \in PalValues :
       LET at == nes.ppu.v % 16384
           k == palette_index_unfolded(at) % 16
       IN /\ nes' = [nes EXCEPT !.ppu = cpu_write_data(@, value, nes.mapper)]
          /\ calls' = [calls EXCEPT
                         !.ops = @ + 1, !.at = at, !.value = value,
                         !.written = IF at >= PALETTE_BASE /\ k \in PalPairs
                                       THEN [@ EXCEPT ![k] = value]
                                       ELSE @]
  /\ last' = Last("write_data")
  /\ UNCHANGED <<rf, guard>>

PalReadData ==
  /\ calls.ops < PalMaxOps
  /\ LET r == cpu_read_data(nes.ppu)
     IN /\ nes' = [nes EXCEPT !.ppu = r.ppu]
        /\ calls' = [calls EXCEPT !.ops = @ + 1, !.at = nes.ppu.v % 16384,
                                  !.read = r.v]
  /\ last' = Last("read_data")
  /\ UNCHANGED <<rf, guard>>

NextPalette == PalWriteAddr \/ PalWriteData \/ PalReadData

SpecPalette == InitPalette /\ [][NextPalette]_vars

PalIsPaired(at) ==
  at >= PALETTE_BASE /\ (palette_index_unfolded(at) % 16) \in PalPairs

\* C37: palette offsets 0x10/0x14/0x18/0x1C are the same storage as
\* 0x00/0x04/0x08/0x0C.  After any sequence of palette writes, through any
\* mirror of 0x3F00-0x3FFF a read of the upper offset and a read of the lower
\* offset of a pair both return the last byte written through either address
\* of the pair (0x0F if none was); and a $2007 read at either address of a
\* pair returns that byte.
C37_PaletteMirror ==
  /\ \A k \in PalPairs : \A mirror \in PalMirrors :
       /\ ppu_read(nes.ppu, PALETTE_BASE + mirror + k) = calls.written[k]
       /\ ppu_read(nes.ppu, PALETTE_BASE + mirror + 16 + k) = calls.written[k]
  /\ (last.kind = "read_data" /\ PalIsPaired(calls.at))
       => calls.read = calls.written[palette_index_unfolded(calls.at) % 16]

\* A byte written through offset 0x10 has been read back through $2007 at
\* 0x3F00; the array's own entry 16 still holds the power-on byte.
C37_Witness ==
  /\ last.kind = "read_data"
  /\ calls.at = PALETTE_BASE
  /\ calls.read = 2
  /\ calls.written[0] = 2
  /\ nes.ppu.palette_ram[16] = 15

\* ---------------------------------------------------------------------------
\* One mapper IRQ: a core loaded with an FME-7 cartridge whose ROM sets the
\* IRQ counter to calls.rom.count, enables the counter and the IRQ, clears I
\* and idles; its IRQ handler is calls.rom.nops NOPs and an RTI and touches
\* no register.  The run stays far below the 65536 cycles the counter needs
\* to come round again and below the APU's first frame IRQ.
\* ---------------------------------------------------------------------------
OnceMaxSteps == 30
OnceCounts == {0, 3, 30}
OnceNops == {0, 1, 2}

\* The instruction the ROM holds at pc.
OnceRom(pc, rom) ==
  IF pc = 32768 THEN Imm(169, 14)
  ELSE IF pc = 32770 THEN Abs(141, 32768)
  ELSE IF pc = 32773 THEN Imm(169, rom.count)
  ELSE IF pc = 32775 THEN Abs(141, 40960)
  ELSE IF pc = 32778 THEN Imm(169, 13)
  ELSE IF pc = 32780 THEN Abs(141, 32768)
  ELSE IF pc = 32783 THEN Imm(169, 129)
  ELSE IF pc = 32785 THEN Abs(141, 40960)
  ELSE IF pc = 32788 THEN Implied(88)
  ELSE IF pc = 32790 THEN Abs(76, 32789)
  ELSE IF pc = CartFme7.vectors[1].irq + rom.nops THEN Implied(64)
  ELSE Implied(234)

\* Whether the mapper's counter passed zero with the IRQ enabled during a
\* step from b to a, that is, whether tick_cpu_cycle asserted the line.
mapper_asserted(b, a) ==
  /\ b.mapper.kind = "fme7"
  /\ b.mapper.irq_enabled /\ b.mapper.irq_counter_enabled
  /\ a.mapper.irq_counter > b.mapper.irq_counter

InitOnce ==
  /\ nes = Nes_new
  /\ rf = "idle"
  /\ guard = 0
  /\ last = Last("new")
  /\ calls = [steps |-> 0, rom |-> [count |-> 0, nops |-> 0], asserts |-> 0,
              apu |-> FALSE, returned |-> FALSE, before |-> Nes_new]

OnceLoad ==
  /\ rf = "idle"
  /\ nes.mapper.kind = "none"
  /\ \E count \in OnceCounts, nops \in OnceNops :
       /\ nes' = load_rom_from_path(nes, [name |-> GameNes, file |-> "cart",
                                          cart |-> CartFme7]).n
       /\ calls' = [calls EXCEPT !.rom = [count |-> count, nops |-> nops]]
  /\ rf' = "loop"
  /\ last' = Last("load_ok")
  /\ UNCHANGED guard

OnceStep ==
  /\ rf = "loop"
  /\ calls.steps < OnceMaxSteps
  /\ LET ins == OnceRom(nes.pc, calls.rom)
         Pass(it) ==
           /\ nes' = it.n
           /\ last' = Last(it.kind)
           /\ calls' = [calls EXCEPT
                          !.steps = @ + 1,
                          !.asserts = IF mapper_asserted(nes, it.n) THEN @ + 1 ELSE @,
                          !.apu = @ \/ apu_irq_pending(it.n.apu),
                          !.returned = @ \/ (it.kind = "exec" /\ ins.op = 64
                                             /\ ~get_flag(it.n, FLAG_INTERRUPT)),
                          !.before = nes]
     IN Pass(run_frame_iteration(nes, ins))
  /\ guard' = guard + 1
  /\ UNCHANGED rf

NextOnce == OnceLoad \/ OnceStep

SpecOnce == InitOnce /\ [][NextOnce]_vars

\* C38: when the mapper has asserted its IRQ line once and the APU has
\* asserted no IRQ, the CPU services at most one IRQ, however long it runs
\* after the handler has returned with I clear.
C38_ServicedOnce ==
  (calls.asserts <= 1 /\ ~calls.apu) => nes.debug.irq_serviced_count <= 1

\* ---------------------------------------------------------------------------
\* Internal RAM over run_frame: a core loaded from a file of any of RamNames
\* runs up to RamMaxFrames frames of the ROM of TwinRom, which stores
\* calls.value at $0400.  calls.cpu_ram is RAM as the passes of run_frame's
\* loop left it (in a pass only cpu_write stores to RAM), calls.before RAM
\* when run_frame was called.
\* ---------------------------------------------------------------------------
RamMaxFrames == 1
RamNames == {GameNes, AccuracyCoinNes}
RamValues == {10}

InitRam ==
  /\ nes = Nes_new
  /\ rf = "idle"
  /\ guard = 0
  /\ last = Last("new")
  /\ calls = [frames |-> 0, value |-> 0, cpu_ram |-> Nes_new.ram,
              before |-> Nes_new.ram]

RamLoad ==
  /\ rf = "idle"
  /\ nes.mapper.kind = "none"
  /\ \E name \in RamNames, value \in RamValues :
       /\ nes' = load_rom_from_path(nes, [name |-> name, file |-> "cart",
                                          cart |-> CartFme7]).n
       /\ calls' = [calls EXCEPT !.value = value]
  /\ last' = Last("load_ok")
  /\ UNCHANGED <<rf, guard>>

RamRunFrameEnter ==
  /\ rf = "idle"
  /\ nes.mapper.kind # "none" /\ ~nes.halted
  /\ calls.frames < RamMaxFrames
  /\ nes' = [nes EXCEPT !.ppu = clear_frame_complete(@)]
  /\ rf' = "loop"
  /\ guard' = 0
  /\ calls' = [calls EXCEPT !.frames = @ + 1, !.cpu_ram = nes.ram,
                            !.before = nes.ram]
  /\ last' = Last("run_frame")

RamRunFrameStep ==
  /\ rf = "loop"
  /\ LET Pass(m) ==
           LET done == (guard + 1 > FRAME_GUARD) \/ m.ppu.frame_complete IN
           /\ nes' = IF done THEN run_frame_epilogue(m) ELSE m
           /\ rf' = IF done THEN "idle" ELSE "loop"
           /\ guard' = IF done THEN 0 ELSE guard + 1
           /\ calls' = [calls EXCEPT !.cpu_ram = m.ram]
           /\ last' = Last(IF done THEN "frame_done" ELSE "step")
     IN Pass(run_frame_iteration(nes, TwinRom(nes.pc, calls.value)).n)

NextRam == RamLoad \/ RamRunFrameEnter \/ RamRunFrameStep

SpecRam == InitRam /\ [][NextRam]_vars

\* C39: when run_frame returns, every RAM byte holds the value of the last
\* write the emulated CPU made to it during the call, or the value it had
\* before the call if the CPU did not write it.
C39_RamOnlyCpuWrites ==
  last.kind = "frame_done" => nes.ram = calls.cpu_ram

\* ---------------------------------------------------------------------------
\* Interrupt entry and return: a loaded core runs passes of run_frame's loop
\* over programs of RtiMenu (loads, PHA, PHP, PLP, CLI, BRK, RTI).  At any
\* instruction boundary the PPU may have raised the NMI, or a source the IRQ
\* (taken when I is clear); the pass after the entry executes the RTI the
\* handler begins with.  calls.before is the core the entry started from.
\* ---------------------------------------------------------------------------
RtiMaxSteps == 5
RtiValues == {251, 255}
RtiMenu ==
  { Imm(169, v) : v \in RtiValues }
  \cup { Implied(op) : op \in {72, 8, 40, 88, 0, 64} }

InitRti ==
  /\ nes = load_rom_from_path(Nes_new, [name |-> GameNes, file |-> "cart",
                                        cart |-> CartFme7]).n
  /\ rf = "loop"
  /\ guard = 0
  /\ last = Last("load_ok")
  /\ calls = [steps |-> 0, ins |-> Implied(234), before |-> nes, entry |-> "none"]

RtiEntered == last.kind \in {"nmi", "irq"}

\* A pass that executes an instruction of the menu.
RtiStep ==
  /\ ~RtiEntered
  /\ calls.steps < RtiMaxSteps
  /\ \E ins \in RtiMenu :
       LET Pass(it) ==
             /\ nes' = it.n
             /\ last' = Last(it.kind)
             /\ calls' = [calls EXCEPT !.steps = @ + 1, !.ins = ins, !.entry = "none"]
       IN Pass(run_frame_iteration(nes, ins))
  /\ guard' = guard + 1
  /\ UNCHANGED rf

\* A pass that begins with the NMI or the IRQ pending: step_cpu services it.
RtiInterrupt ==
  /\ ~RtiEntered
  /\ calls.steps < RtiMaxSteps - 1
  /\ \E line \in {"nmi", "irq"} :
       LET raised == IF line = "nmi" THEN [nes EXCEPT !.pending_nmi = TRUE]
                                     ELSE [nes EXCEPT !.pending_irq = TRUE]
           Pass(it) ==
             /\ nes' = it.n
             /\ last' = Last(it.kind)
             /\ calls' = [calls EXCEPT !.steps = @ + 1, !.before = nes, !.entry = line]
       IN /\ line = "irq" => ~get_flag(nes, FLAG_INTERRUPT)
          /\ Pass(run_frame_iteration(raised, Implied(234)))
  /\ guard' = guard + 1
  /\ UNCHANGED rf

\* The pass after an entry: the handler's RTI.
RtiReturn ==
  /\ RtiEntered
  /\ LET Pass(it) ==
           /\ nes' = it.n
           /\ last' = Last(IF it.kind = "exec" THEN "return" ELSE it.kind)
           /\ calls' = [calls EXCEPT !.steps = @ + 1, !.ins = Implied(64)]
     IN Pass(run_frame_iteration(nes, Implied(64)))
  /\ guard' = guard + 1
  /\ UNCHANGED rf

NextRti == RtiStep \/ RtiInterrupt \/ RtiReturn

SpecRti == InitRti /\ [][NextRti]_vars

\* C40: at every instruction boundary P has bit 5 set and bit 4 clear,
\* after any sequence of instructions including PLP, RTI and BRK; and an NMI
\* or IRQ entry followed at once by RTI leaves PC, SP and every bit of P as
\* they were before the entry, and the entry itself stacked that PC and P,
\* set I and took the vector.
C40_EntryRtiRestores ==
  /\ HasBit(nes.p, FLAG_UNUSED) /\ ~HasBit(nes.p, FLAG_BREAK)
  /\ RtiEntered =>
       /\ last.kind = calls.entry
       /\ nes.sp = Wrap8(calls.before.sp + 253)
       /\ get_flag(nes, FLAG_INTERRUPT)
       /\ nes.pc = (IF last.kind = "nmi" THEN CartFme7.vectors[1].nmi
                                         ELSE CartFme7.vectors[1].irq)
  /\ last.kind = "return" =>
       /\ nes.pc = calls.before.pc
       /\ nes.sp = calls.before.sp
       /\ nes.p = calls.before.p

\* An IRQ entry and its RTI have run from a boundary where a PLP had loaded P
\* with every flag but I and B, the stack pointer having moved, and PC, SP
\* and P are those of that boundary.
C40_Witness ==
  /\ last.kind = "return"
  /\ calls.entry = "irq"
  /\ calls.before.p = 235
  /\ nes.p = 235
  /\ nes.sp = calls.before.sp
  /\ nes.pc = calls.before.pc
  /\ nes.debug.irq_serviced_count = 1

=============================================================================
